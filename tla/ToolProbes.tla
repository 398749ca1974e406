----------------------------- MODULE ToolProbes -----------------------------
(***************************************************************************)
(* The probes that run a command and read its output, one definition per   *)
(* probe.  The command was on the PATH when applies() looked; starting it  *)
(* can still fail, which raises where create_subprocess_exec is outside    *)
(* the probe's try.                                                        *)
(***************************************************************************)
EXTENDS Programs

\* Output that is JSON or not.  Valid JSON of another shape than the probe
\* expects raises AttributeError in its .get calls, which nobody catches.
Json(findings) ==
  [r \in {"not_json", "other_shape", "empty", "rows"} |->
     CASE r = "not_json"    -> Quiet
       [] r = "other_shape" -> Raises
       [] r = "empty"       -> Quiet
       [] r = "rows"        -> Stop(findings)]

\* Lines, each of which is skipped or classified.
Lines(classes) == [r \in SUBSET classes |-> Stop(ClassesIn(r))]

-----------------------------------------------------------------------------
(* TLS scanners *)

\* net.tls.pqc_handshake: openssl s_client with hybrid groups; on a timeout
\* the process stays.
NetTlsPqcHandshake ==
  Tool(10, Noted, Leaves, Noted,
    [r \in {"unsupported", "no_group", "hybrid", "classical"} |->
       CASE r = "hybrid"    -> Stop({Graded("pqc-ready")})
         [] r = "classical" -> Stop({Graded("tinggi")})
         [] OTHER           -> Noted])

\* net.tls.testssl: the temporary file is never removed.
NetTlsTestssl ==
  [Tool(180, Raises,
     [stop |-> {"tempfile"}, timeout |-> {"tempfile"}, raise |-> {"tempfile"},
      cancel |-> {"process", "tempfile"}], Quiet,
     Json(ClassesIn({"sangat-tinggi", "tinggi", "sederhana", "rendah", "info"})))
   EXCEPT !.opens = {"process", "tempfile"}]

\* net.tls.sslyze
NetTlsSslyze == Tool(120, Raises, Kills, Quiet, Json({Graded("sangat-tinggi")}))

\* net.tls.nmap_ssl: cipher lines with a letter grade.
NetTlsNmapSsl ==
  Tool(120, Raises, Kills, Quiet, Lines({"sangat-tinggi", "tinggi", "sederhana", "rendah"}))

-----------------------------------------------------------------------------
(* OpenSSL, OpenSSH and the system's policies *)

Versions == [lib : {"unreadable", "OpenSSL", "LibreSSL"},
             release : {<<1, 1>>, <<3, 4>>, <<3, 5>>, <<4, 0>>}]

AtLeast35(v) == v.release[1] > 3 \/ (v.release[1] = 3 /\ v.release[2] >= 5)

\* HostOpenSSLVersion._tier
OpensslTier(v) ==
  CASE v.lib = "LibreSSL"  -> "sederhana"
    [] AtLeast35(v)        -> "pqc-ready"
    [] v.release[1] = 3    -> "sederhana"
    [] OTHER               -> "tinggi"

HostOpensslVersion ==
  Tool(10, Quiet, Leaves, Quiet,
    [v \in Versions |-> IF v.lib = "unreadable" THEN Quiet
                        ELSE Stop({Graded(OpensslTier(v))})])

\* The verdict of host.openssl.pqc_provenance, where a loaded oqs-provider
\* makes a 3.x host ready.
Provenance(v, oqs) ==
  IF v.lib = "OpenSSL" /\ v.release[1] = 3 /\ oqs THEN "pqc-ready" ELSE OpensslTier(v)

\* host.openssl.pqc_provenance on a host with version v: `openssl version',
\* then, for OpenSSL, the providers.  No provider list counts as no provider.
HostOpensslPqcProvenance(v) ==
  Program({"process"}, 0, Quiet, Leaves,
    << Turn(10, Quiet, Never, Never,
         [r \in {"ok", "failed"} |->
            CASE r = "failed" \/ v.lib = "unreadable" -> Quiet
              [] v.lib # "OpenSSL" -> Stop({Graded(Provenance(v, FALSE))})
              [] OTHER             -> Go({})]),
       Turn(10, Stop({Graded(Provenance(v, FALSE))}), Never, Never,
         [oqs \in BOOLEAN |-> Stop({Graded(Provenance(v, oqs))})]) >>)

HostOpensslOqsProvider ==
  Tool(10, Noted, Leaves, Noted,
    [loaded \in BOOLEAN |->
       Stop({IF loaded THEN Graded("pqc-ready") ELSE Finding("info", "low")})])

\* host.openssl.fips_state: the kernel's flag or a FIPS provider; a list that
\* fails leaves the flag to decide.
FipsVerdict(active) == Stop({Graded(IF active THEN "sederhana" ELSE "info")})

HostOpensslFipsState(kernelOn) ==
  Tool(10, FipsVerdict(kernelOn), Leaves, FipsVerdict(kernelOn),
    [provider \in BOOLEAN |-> FipsVerdict(kernelOn \/ provider)])

\* host.openssl.ciphers emits the two worst classes only.
HostOpensslCiphers == Tool(10, Raises, Kills, Quiet, Lines({"sangat-tinggi", "tinggi"}))

HostOpensslEngines ==
  Tool(10, Raises, Kills, Quiet,
    [legacy \in BOOLEAN |-> IF legacy THEN Stop({Finding("sangat-tinggi", "high")})
                                      ELSE Quiet])

\* host.ssh.binary_caps: `ssh -Q kex', then `ssh -V', whose failure only
\* leaves the version out.
HostSshBinaryCaps(pqc) ==
  LET verdict == Stop({Graded(IF pqc THEN "pqc-ready" ELSE "sederhana")})
  IN Program({"process"}, 0, Quiet, Leaves,
       << Turn(10, Quiet, Never, Never,
            [r \in {"failed", "list"} |-> IF r = "failed" THEN Quiet ELSE Go({})]),
          Turn(10, verdict, Never, Never, [r \in {"version"} |-> verdict]) >>)

\* host.libcrypto_pqc_features: nm -D on every libssl or libcrypto found.
HostLibcryptoPqcFeatures ==
  Each(Tool(10, Noted, Leaves, Noted,
    [markers \in BOOLEAN |->
       Stop({IF markers THEN Graded("pqc-ready") ELSE Finding("info", "low")})]))

(***************************************************************************)
(* host.crypto_policies.profile: the command first, then the files.  A     *)
(* policy is a base and whether the SHA1 submodule is on.                  *)
(***************************************************************************)
PolicyClass(p) ==
  CASE p.sha1                        -> "tinggi"
    [] p.base = "LEGACY"             -> "tinggi"
    [] p.base \in {"DEFAULT", "FIPS"} -> "sederhana"
    [] p.base = "FUTURE"             -> "rendah"
    [] OTHER                         -> "info"

Policies == [base : {"LEGACY", "DEFAULT", "FIPS", "FUTURE", "EMPTY", "other"},
             sha1 : BOOLEAN]

HostCryptoPolicies ==
  Program({"process"}, 0, Quiet, Leaves,
    << Turn(10, Go({}), Never, Never,
         [out \in [policy : Policies, blank : BOOLEAN] |->
            IF out.blank THEN Go({}) ELSE Stop({Graded(PolicyClass(out.policy))})]),
       Turn(0, Never, Quiet, Quiet, [p \in Policies |-> Stop({Graded(PolicyClass(p))})]) >>)

\* HostMacosKeychain._classify_root; "healthy" roots are skipped.
RootClass(root) ==
  CASE root.sig = "weak" \/ root.key = "RSA-1024"    -> "sangat-tinggi"
    [] root.key \in {"RSA-2048", "ECDSA", "Ed25519"} -> "tinggi"
    [] OTHER                                         -> "healthy"

\* host.macos.keychain: a certificate that does not load is left out.
HostMacosKeychain ==
  Tool(15, Quiet, Leaves, Quiet,
    [roots \in SUBSET [sig : {"weak", "sha256"}, key : {"RSA-1024", "Ed25519", "ML-DSA"}] |->
       Stop(ClassesIn({RootClass(x) : x \in roots} \ {"healthy"}))])

\* host.cloud_kms calls subprocess.run, which blocks the loop: nothing can
\* cancel it.  A call that fails, times out or prints no JSON skips its key.
HostCloudKms ==
  Walk(Never, Quiet, [key \in {"skipped", "sangat-tinggi", "tinggi", "info"} |->
                        IF key = "skipped" THEN Quiet ELSE Stop({Graded(key)})])

-----------------------------------------------------------------------------
(* Code, packages, clusters, disks and signatures *)

\* code.semgrep.pqc: one run per root that exists; the severity is Semgrep's
\* own, the class the rule's, so the two need not agree.
CodeSemgrepPqc ==
  Each(Tool(180, Raises, Kills, Quiet,
    Json({Finding("sangat-tinggi", "high"), Finding("tinggi", "med"), Finding("info", "med")})))

SbomSyft == Tool(120, Raises, Kills, Quiet, Json({Note}))

SbomOsRpm == Tool(20, Raises, Kills, Quiet, Lines({"info"}))

ContainerImageSbom == Tool(15, Raises, Kills, Quiet, Lines({"info"}))

K8sIngressTls == Tool(15, Raises, Kills, Quiet, Json({Note}))

K8sSecretsTypes == Tool(20, Raises, Kills, Quiet, Json({Note}))

K8sMeshMtls == Tool(15, Raises, Kills, Quiet, Lines({"info"}))

K8sHelmReleases == Tool(15, Raises, Kills, Quiet, Json({Note}))

\* storage.luks.headers: lsblk, then cryptsetup for each LUKS device (one
\* stands for all here; a device whose dump fails is left out).
StorageLuksHeaders ==
  Program({"process"}, 0, Raises, Kills,
    << Turn(10, Quiet, Never, Never,
         [luks \in BOOLEAN |-> IF luks THEN Go({}) ELSE Quiet]),
       Turn(10, Quiet, Raises, Never,
         [r \in {"no_cipher", "sangat-tinggi", "tinggi", "rendah"} |->
            IF r = "no_cipher" THEN Quiet ELSE Stop({Graded(r)})]) >>)

StorageZfsEncryption == Tool(10, Raises, Kills, Quiet, Lines({"tinggi", "rendah", "info"}))

StorageDmcrypt == Tool(10, Raises, Kills, Quiet, Lines({"tinggi", "info"}))

StorageBitlocker ==
  Tool(10, Raises, Kills, Quiet,
    [aes128 \in BOOLEAN |-> IF aes128 THEN Stop({Graded("tinggi")}) ELSE Quiet])

SignGpgKeyrings == Tool(30, Raises, Kills, Quiet, Lines({"sangat-tinggi", "tinggi", "info"}))

\* sign.git.signing_keys: one `git config' per key.
SignGitSigningKeys ==
  Each(Tool(5, Raises, Kills, Quiet,
    [value \in {"blank", "openpgp", "other"} |->
       CASE value = "blank"   -> Quiet
         [] value = "openpgp" -> Stop({Finding("tinggi", "med")})
         [] OTHER             -> Noted]))

SignImageCosign == Tool(5, Raises, Kills, Quiet, [r \in {"version"} |-> Noted])

SignCodeAuthenticode ==
  Tool(60, Raises, Kills, Quiet,
    [sha1 \in BOOLEAN |-> IF sha1 THEN Stop({Finding("sangat-tinggi", "high")}) ELSE Quiet])
=============================================================================
