----------------------------- MODULE CodeProbes -----------------------------
(***************************************************************************)
(* The probes that read source code, infrastructure as code, and package   *)
(* lists, one definition per probe.                                        *)
(***************************************************************************)
EXTENDS Programs, SrcStrip

\* The class of an RSA key by its length; 0 stands for an unknown one.
RsaCls(bits) == IF bits > 0 /\ bits < 3072 THEN "sangat-tinggi" ELSE "tinggi"

-----------------------------------------------------------------------------
(* Source code *)

\* One file as the expressions of a probe meet it: the calls they name, each
\* with whether its anchor is code (SrcStrip says how that is found out).
Calls(kinds) == SUBSET (kinds \X {"code", "comment"})
InCode(calls) == {c[1] : c \in {x \in calls : x[2] = "code"}}

\* walk_source, strip_noncode and code_finditer, then a class per call.
SourceProbe(class) ==
  Config([calls \in Calls(DOMAIN class) |-> Stop({Graded(class[k]) : k \in InCode(calls)})])

BadOr3072(k) == IF k = "rsa-3072" THEN "tinggi" ELSE "sangat-tinggi"

CodeTsGo == SourceProbe([k \in {"weak", "rsa-3072"} |-> BadOr3072(k)])
CodeTsRust == SourceProbe([k \in {"weak", "rsa-3072"} |-> BadOr3072(k)])
CodeTsPhp == SourceProbe([k \in {"weak", "rsa-3072"} |-> BadOr3072(k)])

\* Elliptic curves and CBC are classical, a key without a size is RSA-2048.
CsharpClass(k) == IF k \in {"rsa-3072", "ec", "cbc"} THEN "tinggi" ELSE "sangat-tinggi"
CodeTsCsharp ==
  SourceProbe([k \in {"weak", "bareRsa", "rsa-3072", "ec"} |-> CsharpClass(k)])

\* JWT algorithms: HMAC is classical, `none' is broken.
JsClass(k) == IF k \in {"rsa-3072", "hs256"} THEN "tinggi" ELSE "sangat-tinggi"
CodeTsJavascript ==
  SourceProbe([k \in {"weak", "rsa-3072", "hs256", "none"} |-> JsClass(k)])

\* Java's cipher specifications: the mode counts only for a sound cipher.
CipherSpec(cipher, mode) ==
  CASE cipher = "DES" \/ mode = "ECB" -> Broken
    [] OTHER                          -> Graded("tinggi")

(***************************************************************************)
(* code.ts.java, with its key generation over two calls as a text.  Every  *)
(* match that code_finditer keeps is reported.                             *)
(***************************************************************************)
\* Bound: texts of four tokens, and those of five that end with a call.
Texts == [1..4 -> Lexemes] \union {t \o <<"get", "init">> : t \in [1..3 -> Lexemes]}

JavaFiles ==
  [text : Texts, specs : {{}}]
    \union [text : {<< >>}, specs : SUBSET ({"AES", "DES"} \X {"CBC", "ECB"})]

CodeTsJava ==
  Compared(Config([f \in JavaFiles |->
            Stop(If(CodeFindIter(f.text) # {}, Broken) \union {CipherSpec(s[1], s[2]) : s \in f.specs})]))

(***************************************************************************)
(* code.ts.python.  A file that parses is judged by its syntax tree, one   *)
(* that does not by regular expressions over the whole text, comments      *)
(* included.  ast.parse raises more than SyntaxError: ValueError for a NUL *)
(* byte, RecursionError for deep nesting, and those end the run.           *)
(***************************************************************************)
\* _classify: a key size that is not a literal is not taken for a small one.
AstClass(kind) ==
  CASE kind \in {"rsa_4096", "rsa_nonliteral", "ecdsa_keygen", "aes_cbc", "sslv23"} -> "tinggi"
    [] OTHER -> "sangat-tinggi"

\* _visit_call: the hit for a call, by the name that the imports give it.
\* `from hashlib import md5 as m' makes m() a hit, a local md5() is none.
VisitCall(name, imported) == IF imported THEN {AstClass(name)} ELSE {}

CodeTsPython ==
  Config([f \in [parses : {"yes", "syntaxError", "otherError"}, name : {"weak_hash", "rsa_nonliteral"},
                 imported : BOOLEAN, comment : BOOLEAN] |->
            CASE f.parses = "otherError"  -> Raises
              [] f.parses = "syntaxError" -> Stop(If(f.name = "weak_hash", Broken))
              [] OTHER -> Stop(IF f.comment THEN {} ELSE ClassesIn(VisitCall(f.name, f.imported)))])

\* code.crypto_primitives searches the text as it is, comments included.
CodeCryptoPrimitives ==
  Config([names \in SUBSET {"sangat-tinggi", "tinggi", "sederhana", "rendah", "pqc-ready"} |->
            Stop(ClassesIn(names))])

-----------------------------------------------------------------------------
(* Infrastructure as code *)

\* _key_spec_finding and its like: symmetric keys are not reported.
KeySpecs == {"SYMMETRIC", "RSA_2048", "RSA_3072", "RSA", "ECC", "none"}
KeySpecFinding(spec) ==
  CASE spec = "RSA_2048"                 -> {Broken}
    [] spec \in {"RSA_3072", "RSA", "ECC"} -> {Graded("tinggi")}
    [] OTHER                             -> {}

\* A listener: its TLS policy and, in CloudFormation, its protocol.
Listeners == [old : BOOLEAN, http : BOOLEAN]
ListenerFinding(l) == If(l.old, Graded("tinggi")) \union If(l.http, Note)

\* cert-manager in CloudFormation's probe: RSA without a size is RSA-2048.
CertManager(size) == If(size # "none", Graded(RsaCls(IF size = "default" THEN 2048 ELSE 3072)))

(***************************************************************************)
(* fs.iac.cloudformation.  A file's findings are capped at _MAX_PER_FILE,  *)
(* by a `return' that leaves run() itself, so that the files behind a full *)
(* one are not looked at.  In fs.iac.terraform the same cap leaves the     *)
(* file.                                                                   *)
(***************************************************************************)
IacFiles == [form : {"malformed", "irrelevant", "template"}, spec : KeySpecs,
             listener : Listeners, cert : {"none", "default", "3072"}, full : BOOLEAN]

IacFindings(f) ==
  IF f.form # "template" THEN {}
  ELSE KeySpecFinding(f.spec) \union ListenerFinding(f.listener) \union CertManager(f.cert)

FsIacCloudformation ==
  Config([f \in IacFiles |->
            IF f.full /\ IacFindings(f) # {} THEN Halt(IacFindings(f)) ELSE Stop(IacFindings(f))])

\* _scan_block: a tls_private_key without arguments is RSA-2048, a vault key
\* without a size is of an unknown one.
TerraformBlock(b) ==
  CASE b.type = "tls_private_key" ->
         {Graded(IF b.spec = "none" THEN RsaCls(2048)
                 ELSE IF b.spec = "ECC" THEN "tinggi" ELSE RsaCls(3072))}
    [] b.type = "azurerm_key_vault_key" -> If(b.spec # "none", Graded("tinggi"))
    [] b.type = "aws_lb_listener" -> If(b.old, Graded("tinggi"))
    [] OTHER -> KeySpecFinding(b.spec)

\* Mutated: the cap of a file leaves run().
FsIacTerraformReturns ==
  Config([f \in {"full"} |-> Halt({Graded("tinggi")})])

FsIacTerraform ==
  Config([b \in [type : {"tls_private_key", "azurerm_key_vault_key", "aws_lb_listener", "aws_kms_key"},
                 spec : {"none", "RSA_3072", "ECC"}, old : BOOLEAN] |-> Stop(TerraformBlock(b))])

(***************************************************************************)
(* k8s.mesh.policy.  The documents of a file are parsed one by one: one    *)
(* that is malformed, or has a list where a map belongs, is skipped and    *)
(* the others are judged.                                                  *)
(***************************************************************************)
MeshDocs == {"malformed", "wrongShape", "disable", "strict", "rsa1024", "rsa2048"}

MeshFinding(doc) ==
  CASE doc \in {"disable", "rsa1024"} -> {Graded("tinggi")}
    [] doc = "strict"                 -> {Note}
    [] doc = "rsa2048"                -> {Graded("sederhana")}
    [] OTHER                          -> {}

LoadDocuments(docs) == docs \ {"malformed"}

K8sMeshPolicy ==
  Config([docs \in SUBSET MeshDocs |-> Stop(UNION {MeshFinding(d) : d \in LoadDocuments(docs)})])

-----------------------------------------------------------------------------
(* Packages.  emit_package makes a Note of each. *)

\* sbom.crypto_map: a Maven artifact is matched by its prefix, the others by
\* their name; a manifest that does not parse is skipped, whatever it raises.
Libraries == [ecosystem : {"pypi", "maven"}, name : {"exact", "prefixed", "unknown"},
              cls : {"tinggi", "rendah", "info", "pqc-ready"}]

LookupLibrary(lib) ==
  IF lib.name = "exact" \/ (lib.ecosystem = "maven" /\ lib.name = "prefixed")
  THEN {Graded(lib.cls)} ELSE {}

SbomCryptoMap == Config([lib \in Libraries |-> Stop(LookupLibrary(lib))])

Packages == Config([found \in BOOLEAN |-> Stop(If(found, Note))])

SbomLangCargo == Packages
SbomLangGomod == Packages
SbomLangMaven == Packages
SbomLangPip == Packages
SbomOsPacman == Packages

\* A document that is not an object has no get(): the run ends.
JsonPackages ==
  Config([doc \in {"malformed", "list", "packages", "none"} |->
            CASE doc = "list"     -> Raises
              [] doc = "packages" -> Noted
              [] OTHER            -> Quiet])

SbomLangComposer == JsonPackages
SbomLangNpm == JsonPackages

SbomOsApk == Look(Quiet, [found \in BOOLEAN |-> Stop(If(found, Note))])
SbomOsWindows == Look(Quiet, [found \in BOOLEAN |-> Stop(If(found, Note))])

\* The read is not guarded.  `Status: ... not-installed' contains the word.
SbomOsDpkg ==
  Look(Raises, [status \in {"installed", "not-installed", "config-files"} |->
                  Stop(If(status \in {"installed", "not-installed"}, Note))])

SbomOsBrew == Tool(30, Raises, Kills, Quiet, [found \in BOOLEAN |-> Stop(If(found, Note))])
=============================================================================
