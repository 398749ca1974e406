----------------------------- MODULE CertProbes -----------------------------
(***************************************************************************)
(* The probes that read certificates, keys and key references from files,  *)
(* one definition per probe.  What the cryptography package does with a    *)
(* file is external: it gives a certificate, rejects the bytes with a      *)
(* ValueError, or (an "odd" key: a key type it does not know, such as an   *)
(* ML-DSA one) raises UnsupportedAlgorithm, which is no ValueError.        *)
(***************************************************************************)
EXTENDS Programs

Keys == {"RSA-512", "RSA-2048", "RSA-4096", "DSA", "EC", "EdDSA", "other", "odd"}

\* classify(key_algorithm(key)); the name of another type is unknown to it.
KeyClass(k) ==
  CASE k \in {"RSA-512", "RSA-2048", "DSA"} -> "sangat-tinggi"
    [] k \in {"RSA-4096", "EC", "EdDSA"}    -> "tinggi"
    [] OTHER                                -> "info"

\* classify() of a signature's hash.
Hashes == {"none", "SHA1", "SHA256", "SHA512"}
HashClass(h) ==
  CASE h = "SHA1" -> "sangat-tinggi" [] h = "SHA256" -> "sederhana"
    [] h = "SHA512" -> "rendah" [] OTHER -> "info"

\* A certificate file; `ext' is "bad" when parsing its extensions fails, and
\* `key' keeps what the probes below tell apart.
CertFiles == [loads : BOOLEAN, ext : {"ok", "bad"}, ca : BOOLEAN,
              key : {"RSA-2048", "EC", "other", "odd"}]

\* The guards that the leaf probes share: a file that is no certificate and a
\* CA are skipped, only a classical key is looked at.
Leaf(c, judgement) ==
  CASE ~c.loads          -> Quiet
    [] c.ext = "bad"     -> Raises
    [] c.ca              -> Quiet
    [] c.key = "odd"     -> Raises
    [] c.key = "other"   -> Quiet
    [] OTHER             -> judgement

-----------------------------------------------------------------------------
(* Certificates *)

\* analyze_rsa_modulus: the issues, each a finding of its own.
AnalyzeRsaModulus(key, roca) ==
  IF key = "RSA-512" \/ (roca /\ key \in {"RSA-2048", "RSA-4096"})
  THEN {Finding("sangat-tinggi", "crit")} ELSE {}

FsCertX509 ==
  Walk(Raises, Quiet,
    [c \in [loads : BOOLEAN, key : Keys, roca : BOOLEAN] |->
       CASE ~c.loads      -> Quiet
         [] c.key = "odd" -> Raises
         [] OTHER -> Stop({Graded(KeyClass(c.key))} \union AnalyzeRsaModulus(c.key, c.roca))])

FsCertRevocation ==
  Walk(Raises, Quiet,
    [c \in [cert : CertFiles, ocsp : BOOLEAN, crl : BOOLEAN] |->
       Leaf(c.cert, IF c.ocsp \/ c.crl THEN Noted ELSE Stop({Graded("sederhana")}))])

\* _horizon_classification, by the year of notAfter.
HorizonClass(notAfter) ==
  CASE notAfter > 2035 -> "tinggi"
    [] notAfter > 2030 -> "sederhana"
    [] OTHER           -> "rendah"

FsCertExpiryHorizon ==
  Walk(Raises, Quiet,
    [c \in [cert : CertFiles, notAfter : {2029, 2030, 2031, 2035, 2036}] |->
       Leaf(c.cert, Stop({Graded(HorizonClass(c.notAfter))}))])

(***************************************************************************)
(* fs.cert.sniff reads every file with another suffix: a certificate first *)
(* (a CA ends the matter), then a private key.  Its stat is inside a try.  *)
(***************************************************************************)
SniffCert(c) ==
  CASE c.ext = "bad" -> Raises
    [] c.ca          -> Quiet
    [] c.key = "odd" -> Raises
    [] OTHER         -> Stop({Finding(KeyClass(c.key),
                                      IF KeyClass(c.key) = "sangat-tinggi" THEN "high" ELSE "med")})

FsCertSniff ==
  Walk(Quiet, Quiet,
    [f \in [gated : BOOLEAN, cert : CertFiles, privkey : {"none", "locked", "RSA-2048", "odd"}] |->
       CASE ~f.gated                           -> Quiet
         [] f.cert.loads                       -> SniffCert(f.cert)
         [] f.privkey = "odd"                  -> Raises
         [] f.privkey \in {"none", "locked"}   -> Quiet
         [] OTHER                              -> Stop({Graded("sederhana")})])

\* _worst: the higher risk of two classes.
Risk(c) ==
  CASE c = "pqc-ready" -> 0 [] c \in {"info", "error"} -> 1 [] c = "rendah" -> 2
    [] c = "sederhana" -> 3 [] c = "tinggi" -> 4 [] c = "sangat-tinggi" -> 5

Worst(a, b) == IF Risk(a) >= Risk(b) THEN a ELSE b

\* fs.cert.pkcs7: every certificate of a bundle, by its key and its hash.
FsCertPkcs7 ==
  Walk(Raises, Quiet,
    [b \in SUBSET [key : {"RSA-2048", "EC", "odd"}, sig : {"none", "SHA256"}] |->
       LET emitted == {Graded(Worst(KeyClass(c.key), HashClass(c.sig))) :
                         c \in {x \in b : x.key # "odd"}}
       IN IF \E c \in b : c.key = "odd" THEN Raise(emitted) ELSE Stop(emitted)])

\* fs.cert.csr: the worse of key and hash by severity, the key on a tie.
FsCertCsr ==
  Walk(Raises, Quiet,
    [c \in [loads : BOOLEAN, key : {"RSA-2048", "EC", "other", "odd"}, sig : Hashes] |->
       LET k == KeyClass(c.key)
           h == HashClass(c.sig)
       IN CASE ~c.loads      -> Quiet
            [] c.key = "odd" -> Raises
            [] OTHER -> Stop({Graded(IF Numeric(SevFor(h)) > Numeric(SevFor(k)) THEN h ELSE k)})])

\* fs.cert.pqc_x509 globs and loads inside a try; only a post-quantum
\* signature is reported.
FsCertPqcX509 ==
  Walk(Never, Quiet,
    [sig \in {"unparsable", "classical", "pqc"} |->
       IF sig = "pqc" THEN Stop({Graded("pqc-ready")}) ELSE Quiet])

EmailSmimeCerts ==
  Walk(Raises, Quiet,
    [c \in [loads : BOOLEAN, key : Keys] |->
       CASE ~c.loads -> Quiet [] c.key = "odd" -> Raises
         [] OTHER -> Stop({Graded(KeyClass(c.key))})])

(***************************************************************************)
(* trust.system_roots: the first certificates of a bundle, those that load *)
(* ("bad" blocks are left out).  An odd one raises after the ones before   *)
(* it have been reported.  Bound: MaxCerts stands for max_certs = 200.     *)
(***************************************************************************)
MaxCerts == 2

Bundles == UNION {[1..n -> {"RSA-2048", "other", "odd", "bad"}] : n \in 0..3}

RootFindings(certs) ==
  {Graded(KeyClass(certs[i])) : i \in {j \in DOMAIN certs :
     /\ KeyClass(certs[j]) \in {"sangat-tinggi", "tinggi"}
     /\ \A k \in 1..j : certs[k] # "odd"}}

TrustSystemRoots ==
  Walk(Never, Quiet,
    [b \in Bundles |->
       LET loaded == SelectSeq(b, LAMBDA k : k # "bad")
           certs == SubSeq(loaded, 1, IF Len(loaded) < MaxCerts THEN Len(loaded) ELSE MaxCerts)
       IN IF \E i \in DOMAIN certs : certs[i] = "odd" THEN Raise(RootFindings(certs))
                                                      ELSE Stop(RootFindings(certs))])

-----------------------------------------------------------------------------
(* Private keys and keystores *)

\* fs.cert.privkey: an encrypted key is skipped.
FsCertPrivkey ==
  Walk(Raises, Quiet,
    [k \in Keys \union {"locked", "no_key"} |->
       CASE k \in {"locked", "no_key"} -> Quiet
         [] k = "odd" -> Raises
         [] OTHER -> Stop({Graded(KeyClass(k))})])

FsCertPrivkeyEncrypted ==
  Walk(Raises, Quiet,
    [t \in {"plain", "pkcs8", "legacy_3des", "legacy_aes", "legacy_unnamed"} |->
       CASE t = "plain"       -> Quiet
         [] t = "legacy_3des" -> Stop({Graded("tinggi")})
         [] OTHER             -> Stop({Graded("sederhana")})])

\* fs.keystore.pkcs12: four passwords are tried; the key has a grading of its
\* own, and so has the hash of the certificate's signature.
KeystoreKeyClass(k) ==
  CASE k \in {"EC", "EdDSA"} -> "tinggi" [] k = "DSA" -> "sangat-tinggi"
    [] OTHER -> KeyClass(k)

FsKeystorePkcs12 ==
  Walk(Raises, Quiet,
    [s \in [opens : BOOLEAN, key : Keys \union {"none"}, sig : Hashes] |->
       CASE ~s.opens      -> Stop({Finding("sederhana", "med")})
         [] s.key = "odd" -> Raises
         [] OTHER -> Stop(
              (IF s.key = "none" THEN {} ELSE {Graded(KeystoreKeyClass(s.key))})
              \union (IF s.sig = "none" THEN {}
                      ELSE {Graded(IF s.sig = "SHA1" THEN "tinggi" ELSE "info")}))])

FsKeystoreJks ==
  Walk(Raises, Quiet,
    [magic \in {"JKS", "JCEKS", "other"} |->
       IF magic = "other" THEN Quiet ELSE Stop({Finding("sederhana", "med")})])

\* fs.ssh.host_keys, _classify: by the type and, for RSA, the bits of the
\* modulus (0: the blob does not parse).
SshKeyClass(type, bits) ==
  CASE type = "ssh-dss" -> "tinggi"
    [] type = "ssh-rsa" -> IF bits \in 1..2047 THEN "tinggi" ELSE "sederhana"
    [] type \in {"ecdsa", "ed25519"} -> "sederhana"
    [] OTHER -> "info"

FsSshHostKeys ==
  Walk(Raises, Quiet,
    [ks \in SUBSET [type : {"ssh-dss", "ssh-rsa", "ed25519", "ssh-new"}, bits : {0, 1024}] |->
       Stop({Graded(SshKeyClass(k.type, k.bits)) : k \in ks})])

\* email.dkim.selectors, a private key or a record.  The record's key is
\* measured by its characters: six bits each, the key's wrapping included;
\* where the record is split (a TXT string has at most 255 bytes) only the
\* first string counts.
DkimApproxBits(bits, split) ==
  LET chars == 4 * ((bits \div 8 + 40) \div 3)
  IN 6 * (IF split /\ chars > 255 THEN 255 ELSE chars)

EmailDkimSelectors ==
  LET verdict(bits) == Stop({Graded(IF bits < 2048 THEN "sangat-tinggi" ELSE "tinggi")})
  IN Walk(Raises, Quiet,
       [f \in [kind : {"private", "record", "neither"}, bits : {1024, 2048, 4096},
               split : BOOLEAN] |->
          CASE f.kind = "private" -> verdict(f.bits)
            [] f.kind = "record"  -> verdict(DkimApproxBits(f.bits, f.split))
            [] OTHER              -> Quiet])

-----------------------------------------------------------------------------
(* Names of keys in configuration *)

\* app.oauth.jwks.  The globs give paths; JSON of another shape raises.
JwkClass(k) ==
  CASE k.kty = "RSA" -> IF k.bits < 3072 THEN "sangat-tinggi" ELSE "tinggi"
    [] OTHER         -> "tinggi"

AppOauthJwks ==
  Walk(Never, Quiet,
    [d \in [shape : {"not_json", "other_shape", "keys"},
            keys : SUBSET [kty : {"RSA", "EC", "oct"}, bits : {2048, 3072}]] |->
       CASE d.shape = "not_json"    -> Quiet
         [] d.shape = "other_shape" -> Raises
         [] OTHER -> Stop({Graded(JwkClass(k)) : k \in {x \in d.keys : x.kty # "oct"}})])

WebWebauthnConfig ==
  Walk(Raises, Quiet,
    [t \in [rp : BOOLEAN, algs : SUBSET {"RS256", "ES256"}] |->
       Stop((IF t.rp THEN {Note} ELSE {})
            \union (IF t.algs = {} THEN {} ELSE {Finding("tinggi", "med")}))])

FsKeyrefCloud ==
  Walk(Raises, Quiet,
    [refs \in SUBSET {"AWS-KMS", "PKCS11/HSM"} |->
       Stop({Finding("sederhana", "med") : r \in refs})])

SignRepoAptdnfKeys == Walk(Raises, Never, [f \in {"key"} |-> Noted])

\* dns.dnssec.zones: DNSKEY records by number, policies by name (of which the
\* deprecated one and the rest are told apart).
DnskeyFinding(alg) ==
  CASE alg \in {1, 3, 5, 6, 7}            -> Graded("sangat-tinggi")
    [] alg \in {8, 10, 13, 14, 15, 16}    -> Graded("tinggi")
    [] OTHER                              -> Note

DnsDnssecZones ==
  Walk(Raises, Quiet,
    [z \in [dnskeys : SUBSET {5, 13, 12}, policies : SUBSET {"rsasha1", "ed25519", "unknown"}] |->
       Stop({DnskeyFinding(a) : a \in z.dnskeys}
            \union {Graded(IF p = "rsasha1" THEN "sangat-tinggi" ELSE "tinggi") :
                      p \in z.policies \ {"unknown"}})])

AuxClockCertValidity == Look(Never, [now \in {"utc"} |-> Noted])
=============================================================================
