----------------------------- MODULE HostProbes -----------------------------
(***************************************************************************)
(* The probes that look at the host itself: registries and policies of its *)
(* crypto libraries, the kernel, password hashing, hardware, the liboqs    *)
(* installation and the migration calendar.  One definition per probe.     *)
(***************************************************************************)
EXTENDS Programs, FiniteSets

(* Windows SCHANNEL *)

\* An entry's Enabled value: absent counts as off.
Dwords == {"absent", "zero", "set"}
EntryEnabled(dword) == dword = "set"

\* The sides on which a protocol is on.
ProtocolEnabledSides(entry) == {side \in DOMAIN entry : EntryEnabled(entry[side])}

\* _classify_cipher: Triple DES is looked for before DES, RC4 before both.
SchannelCipher(name) ==
  CASE name \in {"RC4 128/128", "DES 56/56", "NULL"} -> "sangat-tinggi"
    [] name \in {"Triple DES 168", "AES 128/128"}    -> "tinggi"
    [] OTHER                                         -> "none"

\* _classify_hash
SchannelHash(name) ==
  CASE name = "MD5" -> "sangat-tinggi" [] name = "SHA" -> "tinggi" [] OTHER -> "none"

Reported(class) == If(class # "none", Graded(class))

Hives ==
  [protocol : [name : {"SSL 3.0", "TLS 1.2"}, entry : [{"Root", "Client", "Server"} -> Dwords]],
   cipher : {"RC4 128/128", "Triple DES 168", "DES 56/56", "AES 128/128", "AES 256/256"},
   hash : {"MD5", "SHA", "SHA256"}, leaf : Dwords]

HostWindowsSchannel ==
  Look(Quiet,
       [h \in Hives |->
          LET on(fs) == IF EntryEnabled(h.leaf) THEN fs ELSE {}
          IN Stop(If(h.protocol.name = "SSL 3.0" /\ ProtocolEnabledSides(h.protocol.entry) # {},
                     Broken)
                  \union on(Reported(SchannelCipher(h.cipher)))
                  \union on(Reported(SchannelHash(h.hash)))
                  \union on({Graded("tinggi")}))])   \* every key exchange is classical

-----------------------------------------------------------------------------
(* Library policies *)

\* host.nss.policy.  _min_bits takes the first entry of a name; if it is no
\* number the length counts as unset.
MinBits(tokens) ==
  LET sized == {i \in DOMAIN tokens : tokens[i] # "other"}
  IN IF sized = {} THEN "none"
     ELSE LET first == CHOOSE i \in sized : \A j \in sized : i <= j
          IN IF tokens[first] = "unparsable" THEN "none" ELSE tokens[first]

\* _check_tls_floor: an unset floor is reported like an old one.
TlsFloor(floor) == If(floor \in {"unset", "tls1.0"}, Graded("sederhana"))

\* _check_allow_list: one finding for all that is weak.
AllowList(allow) ==
  If(allow.weak \/ allow.sha1 \/ MinBits(allow.sizes) = "1024", Graded("tinggi"))

HostNssPolicy ==
  Look(Quiet,
       [s \in [floor : {"unset", "tls1.0", "tls1.2"},
               allow : [weak : BOOLEAN, sha1 : BOOLEAN,
                        sizes : [1..2 -> {"1024", "2048", "unparsable", "other"}]]] |->
          Stop(TlsFloor(s.floor) \union AllowList(s.allow))])

\* host.gnutls.config: a file of comments says nothing.
HostGnutlsConfig ==
  Config([t \in [empty : BOOLEAN, legacy : BOOLEAN, weak : BOOLEAN, pqc : BOOLEAN] |->
            IF t.empty THEN Quiet
            ELSE Stop(If(t.legacy \/ t.weak, Graded("tinggi"))
                      \union If(~t.pqc, Graded("sederhana")))])

HostGnupgConfig ==
  Config([tokens \in SUBSET {"sangat-tinggi", "tinggi", "info"} |->
            Stop(ClassesIn(tokens \intersect Weak))])

(***************************************************************************)
(* host.openssl.groups.  _parse_policy keeps, of the lines that stand in   *)
(* [system_default_sect], the last value of each key.  A line is a section *)
(* header or a key and its value.                                          *)
(***************************************************************************)
PolicyLines == {<<"section", "system_default_sect">>, <<"section", "req">>,
                <<"MinProtocol", "TLSv1">>, <<"MinProtocol", "TLSv1.2">>,
                <<"Groups", "X25519">>, <<"Groups", "mlkem768">>}

\* The section the line i of a file is in.
SectionAt(file, i) ==
  LET headers == {j \in 1..i : file[j][1] = "section"}
  IN IF headers = {} THEN "none"
     ELSE file[CHOOSE j \in headers : \A k \in headers : k <= j][2]

ParsePolicy(file, key) ==
  LET lines == {i \in DOMAIN file : file[i][1] = key
                                      /\ SectionAt(file, i) = "system_default_sect"}
  IN IF lines = {} THEN "unset" ELSE file[CHOOSE i \in lines : \A j \in lines : j <= i][2]

\* The policy's findings.  A policy that names no protocol has no floor; a
\* group list without a post-quantum group is a gap.
PolicyFindings(min, groups, seclevel) ==
  If(min \in {"unset", "TLSv1"}, Graded("sederhana"))
    \union If(seclevel = "1", Graded("tinggi"))
    \union If(groups = "mlkem768", Graded("pqc-ready"))
    \union If(groups = "X25519", Graded("sederhana"))

HostOpenSSLGroups ==
  Config([t \in [file : [1..3 -> PolicyLines], seclevel : {"unset", "1", "2"}] |->
            LET min == ParsePolicy(t.file, "MinProtocol")
                groups == ParsePolicy(t.file, "Groups")
            IN IF {min, groups, t.seclevel} = {"unset"} THEN Quiet
               ELSE Stop(PolicyFindings(min, groups, t.seclevel))])

-----------------------------------------------------------------------------
(* Kernel and accounts *)

\* host.rng.config.  The path of a daemon may not be looked at: the findings
\* about the entropy and the hardware are out by then.
HostRngConfig ==
  Look(Never,
       [h \in [entropy : {"unreadable", "low", "enough"}, hardware : BOOLEAN,
               daemon : {"absent", "present", "denied"}] |->
          LET first == If(h.entropy = "low", Graded("sederhana")) \union If(~h.hardware, Note)
          IN IF ~h.hardware /\ h.daemon = "denied" THEN Raise(first) ELSE Stop(first)])

\* _is_weak compares the words of a name: `modes' is not `des'.
HostKernelCryptoRegistry ==
  Look(Quiet, [words \in SUBSET {"cbc", "des", "des3_ede", "aes"} |->
                 Stop(If(words \intersect {"des", "des3_ede"} # {}, Graded("tinggi")))])

\* host.tpm.sealed_keys catches every OSError on its way.
HostTpmSealedKeys ==
  Walk(Quiet, Quiet, [bound \in BOOLEAN |-> Stop(If(bound, Graded("sederhana")))])

\* _classify_hash of host.pam.hashing.  The mark of a locked account is taken
\* off; what has no $ is a DES hash.
ShadowHash(field) ==
  CASE field \in {"$1$", "!$1$", "nodollar"} -> "sangat-tinggi"
    [] field = "$5$"                         -> "sederhana"
    [] OTHER                                 -> "none"

\* _check_login_defs
LoginDefs(method) ==
  CASE method \in {"DES", "MD5"} -> "sangat-tinggi"
    [] method = "SHA256"         -> "sederhana"
    [] OTHER                     -> "none"

\* The three checks in their order.  A directory pam.d that cannot be listed
\* ends the run before the shadow file is read.
HostPamHashing ==
  Look(Never,
       [h \in [method : {"none", "MD5", "SHA256", "YESCRYPT"}, pam : {"denied", "md5", "other"},
               shadow : {"unreadable", "$1$", "!$1$", "$5$", "$6$", "!", "*", "nodollar"}] |->
          LET defs == Reported(LoginDefs(h.method))
          IN IF h.pam = "denied" THEN Raise(defs)
             ELSE Stop(defs \union If(h.pam = "md5", Broken) \union Reported(ShadowHash(h.shadow)))])

HostPlatformInfo == Look(Never, [os \in {"any"} |-> Noted])

StorageFscrypt ==
  Look(Raises, [h \in [cmdline : BOOLEAN, binary : BOOLEAN] |->
                  Stop(If(h.cmdline \/ h.binary, Graded("rendah")))])

ContainerRuntimeDetect == Look(Never, [found \in BOOLEAN |-> Stop(If(found, Note))])

-----------------------------------------------------------------------------
(* Hardware *)

\* hw.tpm.algorithms: a version or bank list that cannot be read is empty.
HwTpmAlgorithms ==
  Walk(Raises, Never,
       [t \in [version : {"", "1", "2"}, banks : SUBSET {"sha1", "sha256"}] |->
          Stop(If(t.version = "1" \/ "sha1" \in t.banks, Graded("tinggi"))
               \union If(t.version = "2" \/ "sha256" \in t.banks, Note))])

HwSmartcardReaders ==
  Config([bits \in {2048, 3072} |-> Stop({IF bits < 3072 THEN Broken ELSE Note})])

HwPkcs11Modules == Config([named \in BOOLEAN |-> Stop(If(named, Note))])

-----------------------------------------------------------------------------
(* liboqs and the calendar *)

\* A round trip that fails, or an exception of the library, is an error.
KatVerdict(ok) == IF ok THEN Graded("pqc-ready") ELSE Finding("error", "high")

PqcKatFips ==
  Look(Noted, [kats \in [{"kem", "sig"} -> BOOLEAN] |->
                 Stop({KatVerdict(kats[k]) : k \in {"kem", "sig"}})])

PqcMetaOqsStatus == Look(Noted, [oqs \in {"loaded"} |-> Stop({Graded("pqc-ready")})])

(***************************************************************************)
(* pqc.meta.nacsa_phase, with days counted from 2025-12-31.  _current_fasa *)
(* takes the first deadline that is not past, so a deadline can only be    *)
(* overdue behind the last of them.                                        *)
(***************************************************************************)
Deadlines == {0, 181, 365, 546, 27028}

CurrentFasa(today) ==
  IF \E d \in Deadlines : today <= d
  THEN CHOOSE d \in Deadlines : today <= d /\ \A e \in Deadlines : today <= e => d <= e
  ELSE 27028

DaysRemaining(today) == CurrentFasa(today) - today

PhaseFinding(days) ==
  CASE days < 0  -> Finding("sangat-tinggi", "high")
    [] days < 30 -> Graded("tinggi")
    [] days < 90 -> Graded("sederhana")
    [] OTHER     -> Note

\* The days around the boundaries.
Todays == {d + delta : d \in Deadlines, delta \in {-90, -89, -30, -29, 0, 1}}

PqcMetaNacsaPhase == Look(Never, [today \in Todays |-> Stop({PhaseFinding(DaysRemaining(today))})])

\* app.crypto_lib_pqc_support
AppCryptoLibPqcSupport ==
  Config([libraries \in BOOLEAN |-> Stop(If(libraries, Graded("pqc-ready")))])
=============================================================================
