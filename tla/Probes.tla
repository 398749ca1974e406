------------------------------- MODULE Probes -------------------------------
(***************************************************************************)
(* The registry of probes, each run by the engine of module ProbeRun, and  *)
(* what holds of all of them.                                              *)
(*                                                                         *)
(* Probes that differ only in a port, a banner or a list of targets share  *)
(* a program: RunTlsProbe stands for net.tls.https, imaps, pop3s, smtps,   *)
(* ldaps, mqtts, net.db.mongo_tls and net.db.redis_tls; OTTls for modbus   *)
(* secure, CIP security, BACnet/SC, DICOM and HL7; NetStarttlsPop3 for    *)
(* IMAP and FTP, which have no line before the command either.  Probes     *)
(* that depend on the host's build are there once per build.               *)
(***************************************************************************)
EXTENDS ProbeRun, NetProbes, ToolProbes, CertChain, ConfProbes, HostProbes,
        CodeProbes, BlobProbes

Net ==
  [RunTlsProbe |-> RunTlsProbe, OTTls |-> OTTls,
   NetStarttlsLdap |-> NetStarttlsLdap, NetStarttlsSmtp |-> NetStarttlsSmtp,
   NetStarttlsPop3 |-> NetStarttlsPop3, NetDbPostgresTls |-> NetDbPostgresTls,
   NetDbMysqlTls |-> NetDbMysqlTls, NetDbMssqlTls |-> NetDbMssqlTls,
   NetTlsKexGroups |-> NetTlsKexGroups, NetTlsVersions |-> NetTlsVersions,
   NetTlsCertChain |-> NetTlsCertChain,
   NetTlsCertChainTls13 |-> NetTlsCertChainTls13, NetPortsTcp |-> NetPortsTcp,
   NetPortsUdp |-> NetPortsUdp, NetCtCrtsh |-> NetCtCrtsh,
   NetRdpNegotiation |-> NetRdpNegotiation, NetSmbDialect |-> NetSmbDialect,
   NetTelnetPlaintext |-> NetTelnetPlaintext,
   NetSshHandshake |-> NetSshHandshake, NetKerberosAsreq |-> NetKerberosAsreq,
   NetKerberosEtypes |-> NetKerberosEtypes, NetTftpService |-> NetTftpService,
   NetSnmpVersion |-> NetSnmpVersion, NetIkeV1V2 |-> NetIkeV1V2,
   NetIkeTransforms |-> NetIkeTransforms, OTModbusTcp |-> OTModbusTcp,
   OTS7Comm |-> OTS7Comm, OTIec104 |-> OTIec104, OTIec61850Mms |-> OTIec61850Mms,
   OTEthernetIp |-> OTEthernetIp, OTDnp3Tcp |-> OTDnp3Tcp, OTOpcUa |-> OTOpcUa,
   OTBacnet |-> OTBacnet, OTGtp |-> OTGtp, OTCoapDtls |-> OTCoapDtls]

Tools ==
  [NetTlsPqcHandshake |-> NetTlsPqcHandshake, NetTlsTestssl |-> NetTlsTestssl,
   NetTlsSslyze |-> NetTlsSslyze, NetTlsNmapSsl |-> NetTlsNmapSsl,
   HostOpensslVersion |-> HostOpensslVersion,
   HostOpensslOqsProvider |-> HostOpensslOqsProvider,
   HostOpensslCiphers |-> HostOpensslCiphers,
   HostOpensslEngines |-> HostOpensslEngines,
   HostLibcryptoPqcFeatures |-> HostLibcryptoPqcFeatures,
   HostCryptoPolicies |-> HostCryptoPolicies,
   HostMacosKeychain |-> HostMacosKeychain, HostCloudKms |-> HostCloudKms,
   CodeSemgrepPqc |-> CodeSemgrepPqc, SbomSyft |-> SbomSyft,
   SbomOsRpm |-> SbomOsRpm, ContainerImageSbom |-> ContainerImageSbom,
   K8sIngressTls |-> K8sIngressTls, K8sSecretsTypes |-> K8sSecretsTypes,
   K8sMeshMtls |-> K8sMeshMtls, K8sHelmReleases |-> K8sHelmReleases,
   StorageLuksHeaders |-> StorageLuksHeaders,
   StorageZfsEncryption |-> StorageZfsEncryption,
   StorageDmcrypt |-> StorageDmcrypt, StorageBitlocker |-> StorageBitlocker,
   SignGpgKeyrings |-> SignGpgKeyrings,
   SignGitSigningKeys |-> SignGitSigningKeys,
   SignImageCosign |-> SignImageCosign,
   SignCodeAuthenticode |-> SignCodeAuthenticode,
   HostOpensslPqcProvenanceOld |-> HostOpensslPqcProvenance([lib |-> "OpenSSL", release |-> <<3, 4>>]),
   HostOpensslPqcProvenanceNew |-> HostOpensslPqcProvenance([lib |-> "OpenSSL", release |-> <<3, 5>>]),
   HostOpensslPqcProvenanceLibre |-> HostOpensslPqcProvenance([lib |-> "LibreSSL", release |-> <<3, 4>>]),
   HostOpensslFipsState |-> HostOpensslFipsState(FALSE),
   HostOpensslFipsKernel |-> HostOpensslFipsState(TRUE),
   HostSshBinaryCaps |-> HostSshBinaryCaps(TRUE),
   HostSshBinaryOld |-> HostSshBinaryCaps(FALSE)]

CertFilesRead ==
  [FsCertX509 |-> FsCertX509, FsCertRevocation |-> FsCertRevocation,
   FsCertExpiryHorizon |-> FsCertExpiryHorizon, FsCertSniff |-> FsCertSniff,
   FsCertPkcs7 |-> FsCertPkcs7, FsCertCsr |-> FsCertCsr,
   FsCertPqcX509 |-> FsCertPqcX509, EmailSmimeCerts |-> EmailSmimeCerts,
   TrustSystemRoots |-> TrustSystemRoots, FsCertPrivkey |-> FsCertPrivkey,
   FsCertPrivkeyEncrypted |-> FsCertPrivkeyEncrypted,
   FsKeystorePkcs12 |-> FsKeystorePkcs12, FsKeystoreJks |-> FsKeystoreJks,
   FsSshHostKeys |-> FsSshHostKeys, EmailDkimSelectors |-> EmailDkimSelectors,
   AppOauthJwks |-> AppOauthJwks, WebWebauthnConfig |-> WebWebauthnConfig,
   FsKeyrefCloud |-> FsKeyrefCloud, SignRepoAptdnfKeys |-> SignRepoAptdnfKeys,
   DnsDnssecZones |-> DnsDnssecZones,
   AuxClockCertValidity |-> AuxClockCertValidity]

Configurations ==
  [FsConfNginx |-> FsConfNginx, FsConfApache |-> FsConfApache,
   FsConfHaproxy |-> FsConfHaproxy, FsConfTraefik |-> FsConfTraefik,
   FsConfEnvoy |-> FsConfEnvoy, FsConfCaddy |-> FsConfCaddy,
   FsConfF5 |-> FsConfF5, FsConfNetscaler |-> FsConfNetscaler,
   FsConfOpensslCnf |-> FsConfOpensslCnf, FsConfIbmiSysval |-> FsConfIbmiSysval,
   FsConfSshd |-> FsConfSshd, HostSshClientConfig |-> HostSshClientConfig,
   HostSshServerConfig |-> HostSshServerConfig, HostSshModuli |-> HostSshModuli,
   HostOpenSSLConfig |-> HostOpenSSLConfig, HostKrb5Config |-> HostKrb5Config,
   HostJavaSecurity |-> HostJavaSecurity, MqKafkaTls |-> MqKafkaTls,
   MqMqttBroker |-> MqMqttBroker, MqRabbitmqTls |-> MqRabbitmqTls,
   MqNatsTls |-> MqNatsTls, DbMssqlTde |-> DbMssqlTde,
   DbMysqlKeyring |-> DbMysqlKeyring,
   DbMongoEncryptedStorage |-> DbMongoEncryptedStorage,
   DbPgPgcrypto |-> DbPgPgcrypto, VpnWireguard |-> VpnWireguard,
   VpnOpenvpnConfig |-> VpnOpenvpnConfig,
   VpnTailscaleState |-> VpnTailscaleState,
   AppSpringProperties |-> AppSpringProperties,
   AppNginxJwtValidation |-> AppNginxJwtValidation,
   AppJwtEnvAlg |-> AppJwtEnvAlg]

Hosts ==
  [HostWindowsSchannel |-> HostWindowsSchannel, HostNssPolicy |-> HostNssPolicy,
   HostGnutlsConfig |-> HostGnutlsConfig, HostGnupgConfig |-> HostGnupgConfig,
   HostOpenSSLGroups |-> HostOpenSSLGroups, HostRngConfig |-> HostRngConfig,
   HostKernelCryptoRegistry |-> HostKernelCryptoRegistry,
   HostTpmSealedKeys |-> HostTpmSealedKeys, HostPamHashing |-> HostPamHashing,
   HostPlatformInfo |-> HostPlatformInfo, StorageFscrypt |-> StorageFscrypt,
   ContainerRuntimeDetect |-> ContainerRuntimeDetect,
   HwTpmAlgorithms |-> HwTpmAlgorithms,
   HwSmartcardReaders |-> HwSmartcardReaders,
   HwPkcs11Modules |-> HwPkcs11Modules, PqcKatFips |-> PqcKatFips,
   PqcMetaOqsStatus |-> PqcMetaOqsStatus,
   PqcMetaNacsaPhase |-> PqcMetaNacsaPhase,
   AppCryptoLibPqcSupport |-> AppCryptoLibPqcSupport]

Sources ==
  [CodeTsGo |-> CodeTsGo, CodeTsRust |-> CodeTsRust, CodeTsPhp |-> CodeTsPhp,
   CodeTsCsharp |-> CodeTsCsharp, CodeTsJavascript |-> CodeTsJavascript,
   CodeTsJava |-> CodeTsJava, CodeTsPython |-> CodeTsPython,
   CodeCryptoPrimitives |-> CodeCryptoPrimitives,
   FsIacCloudformation |-> FsIacCloudformation,
   FsIacTerraform |-> FsIacTerraform, K8sMeshPolicy |-> K8sMeshPolicy,
   SbomCryptoMap |-> SbomCryptoMap, SbomLangCargo |-> SbomLangCargo,
   SbomLangGomod |-> SbomLangGomod, SbomLangMaven |-> SbomLangMaven,
   SbomLangPip |-> SbomLangPip, SbomOsPacman |-> SbomOsPacman,
   SbomLangComposer |-> SbomLangComposer, SbomLangNpm |-> SbomLangNpm,
   SbomOsApk |-> SbomOsApk, SbomOsWindows |-> SbomOsWindows,
   SbomOsDpkg |-> SbomOsDpkg, SbomOsBrew |-> SbomOsBrew]

Blobs ==
  [FsBinaryCrypto |-> FsBinaryCrypto, FsDbCrypto |-> FsDbCrypto,
   NetSniffLive |-> NetSniffLive, FsPcapCrypto |-> FsPcapCrypto,
   FsZeekLogs |-> FsZeekLogs,
   FsCertChain |-> FsCertChain]

Shipped == Net @@ Tools @@ CertFilesRead @@ Configurations @@ Hosts @@ Sources @@ Blobs

-----------------------------------------------------------------------------
(* Properties *)

\* What was said about an item, and what an alarm is.
SaidOf(i) == {s[2] : s \in {x \in said : x[1] = i}}
Alarming(f) == f.sev \in {"high", "crit"}

\* Tools that are not killed when the probe's own timeout ends the wait.
NeverKilled ==
  {"HostOpensslVersion", "HostOpensslOqsProvider", "HostLibcryptoPqcFeatures",
   "HostOpensslFipsState", "HostOpensslFipsKernel", "HostSshBinaryCaps",
   "HostSshBinaryOld", "HostCryptoPolicies", "HostMacosKeychain", "NetTlsPqcHandshake",
   "HostOpensslPqcProvenanceOld", "HostOpensslPqcProvenanceNew",
   "HostOpensslPqcProvenanceLibre"}

\* However a run ends, its sockets are closed, and if it ends by itself its
\* process is gone, too: the finally and kill() of each probe cover the
\* timeout, the reset, the short read and the exception in between.  Two
\* probes are known not to: net.kerberos.asreq closes its writer on the
\* straight path only, net.tls.testssl leaves its temporary file.
NothingLeftOpen ==
  Over /\ probe \notin {"NetKerberosAsreq", "NetTlsTestssl"} =>
    /\ \A o \in open : o[2] = "process"
    /\ open # {} => outcome = "cancelled" \/ probe \in NeverKilled

\* An alarm of a network probe is about a server that is there: it accepted
\* the connection or answered, whatever failed before or after.  BACnet and
\* GTP report a target that stays silent (ot_bacnet.py, ot_gtp.py).
AlarmNeedsPeer ==
  probe \in DOMAIN Net \ {"OTBacnet", "OTGtp"} =>
    /\ \A i \in 1..total : (\E f \in SaidOf(i) : Alarming(f)) => i \in met
    /\ (\E f \in SaidOf(0) : Alarming(f)) => counted \intersect met # {}

\* One bad item does not hide the others: a run that returns has been through
\* all of its items, or says with a note at the item where it stopped that it
\* did not go on.  fs.iac.cloudformation leaves run() at the cap of a file.
AllItemsVisited ==
  outcome = "returned" /\ probe # "FsIacCloudformation" =>
    item = total + 1 \/ Note \in SaidOf(item)

\* Probes whose documentation says that they never raise.  Two more say so
\* and do: net.db.mssql_tls when the connection is reset, fs.zeek.logs over
\* an empty #separator.
Quiescent ==
  {"NetKerberosEtypes", "NetIkeTransforms", "FsBinaryCrypto", "FsDbCrypto",
   "NetSniffLive", "FsPcapCrypto"}

\* They do not, wherever the connection, the read or the file breaks off.
PromisedNotToRaise ==
  probe \in Quiescent /\ outcome = "raised" => item = 0

\* Probes that can wait longer than the runner lets them: a tool with a
\* timeout of half a minute or more, several targets, or many turns.
Slow ==
  {"NetStarttlsSmtp", "NetStarttlsPop3", "NetStarttlsLdap", "NetDbMssqlTls",
   "NetSshHandshake", "NetTlsVersions", "NetTlsTestssl", "NetTlsSslyze",
   "NetTlsNmapSsl", "CodeSemgrepPqc", "SbomSyft", "SbomOsBrew",
   "SignGpgKeyrings", "SignCodeAuthenticode", "FsBinaryCrypto"}

\* The runner's limit is a backstop: every other probe ends by its own
\* timeouts, and what it has found by then is not lost to a cancellation.
OwnTimeoutsSuffice ==
  outcome = "cancelled" /\ item > 0 => probe \in Slow

\* strip_noncode blanks exactly what is a comment or a string, whatever
\* quotes, comment marks and line ends stand in whichever order.
MaskExact ==
  probe = "CodeTsJava" /\ last # Silence =>
    StripNoncode(last[1].text) = NonCode(last[1].text)

\* code_finditer drops nothing but what is buried: a key generation that is
\* code ends a match that is kept, whatever strings and comments the match
\* spans.  The one way to lose it is a match that starts in a comment or a
\* string and, as finditer goes on behind a match, swallows the call; so
\* srcstrip.py's "Recall is thus preserved exactly" is too much.
RecallUnlessSwallowed ==
  probe = "CodeTsJava" /\ last # Silence =>
    LET text == last[1].text
    IN \A c \in RealCalls(text) :
         \/ \E m \in CodeFindIter(text) : m[2] = c[2]
         \/ \E m \in FindIter(text) : m[2] = c[2] /\ m[1] < c[1] /\ m[1] \in NonCode(text)

\* _reassemble_stream gives the first run of the captured bytes, in order
\* and without a repetition, from segments that came in any order, twice,
\* overlapping or with gaps; if the sequence numbers do not wrap.
RebuildsPrefix ==
  probe = "NetSniffLive" /\ last # Silence =>
    LET segs == last[1].segs
        stream == ReassembleStream(segs)
    IN Wraps(last[1].isn, segs) \/
         /\ ToSet(stream) = FirstRun(segs)
         /\ \A i \in 1..(Len(stream) - 1) : stream[i] < stream[i + 1]

\* The chain of a leaf is judged by its weakest link: nothing that stands
\* behind the leaf, however far, is worse than what is reported; if no two
\* of the certificates behind it have one name (the loop guard stops there).
WeakestLinkReported ==
  probe = "FsCertChain" /\ last # Silence /\ outcome # "raised" =>
    LET store == last[1]
        behind == Behind(store, store[1])
    IN Len(store) > 1 /\ (\A c, d \in behind : c.subject = d.subject => c = d) =>
         \E f \in SaidOf(1) : \A c \in behind : \A k \in ChainClassifications(c) :
           Rank(f.cls) <= Rank(k)

-----------------------------------------------------------------------------
(***************************************************************************)
(* The first five of these properties follow, for any number of items and  *)
(* whatever the world answers, from rules that a program keeps or breaks   *)
(* before it runs.  Module ProbesProofs proves that they do.               *)
(***************************************************************************)

\* A turn without an answer, and all that a turn can come to.
Failures(t) == {t.timeout, t.oserror, t.eof}
Judgements(t) == Failures(t) \union {t.judge[r] : r \in DOMAIN t.judge}

\* Every judgement of the program, or every one without an answer, is such.
Always(p, Such(_)) ==
  Such(p.gone) /\ \A i \in 1..Len(p.turns) : \A j \in Judgements(p.turns[i]) : Such(j)
Unanswered(p, Such(_)) ==
  \A i \in 1..Len(p.turns) : \A j \in Failures(p.turns[i]) : Such(j)

\* A process is what a cancellation may leave and, of these tools, a timeout.
ClosesUp(n, p) ==
  /\ p.leaves["stop"] = {} /\ p.leaves["raise"] = {} /\ p.leaves["cancel"] \subseteq {"process"}
  /\ p.leaves["timeout"] \subseteq (IF n \in NeverKilled THEN {"process"} ELSE {})

\* Without an answer and without a connection that was accepted, nothing
\* alarms and nothing counts; and nothing that counts, no alarm at the end.
Harmless(j) == j.next # "count" /\ ~\E f \in j.says : Alarming(f)
NeedsPeer(p) ==
  /\ Harmless(p.gone) /\ ("tcp" \in p.opens \/ Unanswered(p, Harmless))
  /\ ~\E f \in p.sums[{}] : Alarming(f)

SaysWhereItStops(j) == j.next = "halt" => Note \in j.says
NeverRaises(j) == j.next # "raise"

\* The seconds that an item may take up to the end of its turn k, and enough
\* of them for all items.
Patience(p) ==
  LET upto[k \in 0..Len(p.turns)] == IF k = 0 THEN p.dial ELSE upto[k - 1] + p.turns[k].wait
  IN upto
InTime(p) == ~p.yields /\ \A n \in p.items : n * Patience(p)[Len(p.turns)] < Limit

\* The program of probe n keeps the rules, but for those that the properties
\* name.
Keeps(n, p) ==
  /\ n \in {"NetKerberosAsreq", "NetTlsTestssl"} \/ ClosesUp(n, p)
  /\ n \in DOMAIN Net \ {"OTBacnet", "OTGtp"} => NeedsPeer(p)
  /\ n = "FsIacCloudformation" \/ Always(p, SaysWhereItStops)
  /\ n \in Quiescent => Always(p, NeverRaises)
  /\ n \in Slow \/ InTime(p)

\* No probe of the registry is run that breaks a rule: what its finally, its
\* except clauses and its timeouts are, and what it reports unanswered.
RulesKept == item = 0 => \A p \in {Catalog[probe]} : Keeps(probe, p)

-----------------------------------------------------------------------------
\* Every run of a probe ends: by its own timeouts or by the runner's.
Ends == <>Over
=============================================================================
