------------------------------ MODULE MCProbes ------------------------------
(***************************************************************************)
(* The registry for TLC.  A probe whose items can be many things works     *)
(* through one of them, the others through up to two.                      *)
(***************************************************************************)
EXTENDS Probes

Large ==
  {"AppOauthJwks", "AppSpringProperties", "CodeTsCsharp", "CodeTsJava",
   "CodeTsJavascript", "CodeTsPhp", "CodeTsRust", "DbMssqlTde",
   "DnsDnssecZones", "FsBinaryCrypto", "FsCertExpiryHorizon", "FsCertPkcs7",
   "FsCertRevocation", "FsCertSniff", "FsCertX509", "FsConfApache",
   "FsConfCaddy", "FsConfEnvoy", "FsConfF5", "FsConfHaproxy",
   "FsConfIbmiSysval", "FsConfNetscaler", "FsDbCrypto", "FsKeystorePkcs12",
   "FsPcapCrypto", "FsSshHostKeys", "FsZeekLogs", "HostCryptoPolicies",
   "HostJavaSecurity", "HostNssPolicy", "HostOpenSSLGroups",
   "HostSshClientConfig", "HostSshServerConfig", "HostWindowsSchannel",
   "K8sMeshPolicy", "TrustSystemRoots", "VpnOpenvpnConfig", "VpnWireguard"}

\* Bound: one item for a large probe.
MCInit == Init /\ (probe \in Large => total = 1)

MCSpec == MCInit /\ [][Next]_vars /\ WF_vars(Next)
=============================================================================
