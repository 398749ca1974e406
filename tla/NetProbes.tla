------------------------------ MODULE NetProbes ------------------------------
(***************************************************************************)
(* The probes that talk to a server, one definition per probe (see module  *)
(* Programs for the vocabulary).                                           *)
(***************************************************************************)
EXTENDS Programs

-----------------------------------------------------------------------------
(* TLS through the ssl module *)

\* What a completed handshake shows: the class of the cipher and of the
\* certificate's key, if there is one.  "odd" is a certificate that the
\* cryptography package rejects, or whose key type it does not know.
Suites == {"none", "sangat-tinggi", "tinggi", "info"}
Certs == {"none", "odd", "tinggi", "sederhana"}
Handshakes == [cipher : Suites, cert : Certs]

CipherFinding(h) == IF h.cipher = "none" THEN {} ELSE {Graded(h.cipher)}

\* The findings come after the connection has been closed: first the cipher,
\* then the certificate.  Loading an odd one raises between the two.
TlsFindings(h) ==
  CASE h.cert = "odd"  -> Raise(CipherFinding(h))
    [] h.cert = "none" -> Stop(CipherFinding(h))
    [] OTHER           -> Stop(CipherFinding(h) \union {Graded(h.cert)})

\* start_tls on a connection that already stands: its failures are OSErrors.
Upgrade(wait) ==
  Turn(wait, Noted, Noted, Noted, [h \in Handshakes |-> TlsFindings(h)])

\* run_tls_probe: connection and handshake are one await.
RunTlsProbe ==
  Socket(10, Noted, << Turn(0, Noted, Noted, Noted,
                             [h \in Handshakes |-> TlsFindings(h)]) >>)

\* The TLS variants of industrial protocols: a first connection only tells
\* whether anybody listens; run_tls_probe then makes its own.
OTTls == Each([RunTlsProbe EXCEPT !.dial = 12])

-----------------------------------------------------------------------------
(* Plaintext protocols that upgrade to TLS *)

\* net.starttls.ldap: any ENUMERATED tag among the first bytes counts as
\* consent, whatever the result code.
NetStarttlsLdap ==
  Socket(10, Noted,
    << Turn(10, Quiet, Raises, Noted,
         [r \in {"part", "success", "refusal", "other"} |->
            IF r \in {"success", "refusal"} THEN Go({}) ELSE Noted]),
       Upgrade(10) >>)

(***************************************************************************)
(* run_starttls_probe: the greeting, the answer to EHLO where the protocol *)
(* has one, and the answer to the STARTTLS command.  A line that does not  *)
(* come in time is done without, so a late line is taken for the answer to *)
(* what was sent after it: POP3's greeting has the mark of consent, too.   *)
(***************************************************************************)
StarttlsGreeting == Turn(5, Go({}), Raises, Go({}), [r \in {"greeting"} |-> Go({})])
StarttlsEhlo     == Turn(2, Go({}), Raises, Go({}), [r \in {"lines"} |-> Go({})])
StarttlsReply    == Turn(5, Noted, Raises, Noted,
  [r \in {"consent", "late_greeting", "refusal"} |-> IF r = "refusal" THEN Noted ELSE Go({})])

NetStarttlsSmtp == Socket(10, Noted, << StarttlsGreeting, StarttlsEhlo, StarttlsReply, Upgrade(10) >>)
NetStarttlsPop3 == Socket(10, Noted, << StarttlsGreeting, StarttlsReply, Upgrade(10) >>)

\* net.db.postgres_tls: one byte answers the SSLRequest.
NetDbPostgresTls ==
  Socket(5, Noted,
    << Turn(5, Noted, Raises, Noted,
         [r \in {"N", "S", "E"} |->
            CASE r = "N" -> Stop({Finding("sangat-tinggi", "crit")})
              [] r = "S" -> Go({})
              [] OTHER   -> Noted]),
       Upgrade(10) >>)

(***************************************************************************)
(* net.db.mysql_tls: the server speaks first, a header and a payload.  Of  *)
(* the payload only what decides is kept: whether it is a greeting at all, *)
(* and two of the server's capability flags.  The flags begin at byte 13   *)
(* after the version string; the probe unpacks bytes 12 and 13, so bit 11  *)
(* of its number is bit 3 of the server's, CLIENT_CONNECT_WITH_DB, and the *)
(* upper half it reads is a byte off as well and cannot set bit 11.        *)
(***************************************************************************)
MysqlGreetings == [greets : BOOLEAN, ssl : BOOLEAN, withDb : BOOLEAN]

MysqlSslOk(g) == g.withDb

\* Mutated: a timeout of fifteen seconds for each of the three awaits.
NetDbMysqlTlsPatient ==
  Socket(15, Noted,
    << Turn(15, Quiet, Raises, Quiet, [r \in {"header"} |-> Go({})]),
       Turn(15, Quiet, Raises, Quiet, [g \in {"other"} |-> Quiet]) >>)

NetDbMysqlTls ==
  Socket(5, Noted,
    << Turn(5, Quiet, Raises, Quiet, [r \in {"header"} |-> Go({})]),
       Turn(5, Quiet, Raises, Quiet,
         [g \in MysqlGreetings |->
            CASE ~g.greets     -> Quiet
              [] MysqlSslOk(g) -> Stop({Finding("tinggi", "med")})
              [] OTHER         -> Stop({Finding("sangat-tinggi", "crit")})]) >>)

\* What a ServerHello says of the key exchange.  parse_server_hello indexes
\* into a body that a first segment may cut short: struct.unpack then raises,
\* which its except clause (IndexError) does not catch.
HelloReplies == {"alert", "part", "no_share", "hybrid", "classical"}

KexGroup(r) ==
  CASE r = "part"                -> "raise"
    [] r \in {"alert", "no_share"} -> "none"
    [] OTHER                     -> r

\* net.db.mssql_tls: the PRELOGIN answer, then a ServerHello in a TDS packet.
\* Both packets are a header and a body, read by _read_tds.
TdsPacket(judge) == Turn(12, Noted, Raises, Noted, judge)

NetDbMssqlTls ==
  Socket(6, Noted,
    << TdsPacket(
         [r \in {"malformed", "off", "on", "not_sup", "req"} |->
            CASE r = "malformed" -> Noted
              [] r = "not_sup" -> Stop({Finding("sangat-tinggi", "crit")})
              [] r = "off"     -> Go({Finding("tinggi", "high")})
              [] OTHER         -> Go({})]),
       TdsPacket(
         [r \in HelloReplies |->
            CASE KexGroup(r) = "raise"  -> Raises
              [] KexGroup(r) = "none"   -> Noted
              [] KexGroup(r) = "hybrid" -> Stop({Graded("pqc-ready")})
              [] OTHER                  -> Stop({Finding("sederhana", "med")})]) >>)

-----------------------------------------------------------------------------
(* Raw TLS *)

\* net.tls.kex_groups: a ClientHello without a key share, one read.
NetTlsKexGroups ==
  Socket(6, Quiet,
    << Turn(6, Quiet, Quiet, Quiet,
         [r \in HelloReplies |->
            CASE KexGroup(r) = "raise"  -> Raises
              [] KexGroup(r) = "none"   -> Quiet
              [] KexGroup(r) = "hybrid" -> Stop({Graded("pqc-ready")})
              [] OTHER                  -> Stop({Finding("sederhana", "med")})]) >>)

\* detect_accept: a handshake record whose first message is a ServerHello.
DetectAccept(r) == r \in {"hello", "lower"}

\* The findings once the sweep is over, from the versions accepted.  Versions
\* 1 to 5 are SSL 3, TLS 1.0, TLS 1.1, TLS 1.2 and TLS 1.3.
VersionsVerdict(accepted) ==
  {Finding("tinggi", "high") : v \in accepted \intersect {1, 2}}
    \union {Finding("sederhana", "med") : v \in accepted \intersect {3}}
    \union (IF 5 \in accepted THEN {Note} ELSE {Finding("sederhana", "med")})

(***************************************************************************)
(* net.tls.versions offers five versions, a connection each; every failure *)
(* is a reject.  A server may answer a hello with a lower version than the *)
(* one offered ("lower"), which counts as well.                            *)
(***************************************************************************)
NetTlsVersions ==
  Summed([Socket(6, Quiet,
            << Turn(6, Quiet, Quiet, Quiet,
                 [r \in {"hello", "lower", "alert"} |->
                    IF DetectAccept(r) THEN Count({}) ELSE Quiet]) >>)
            EXCEPT !.items = {5}],
         [accepted \in SUBSET (1..5) |-> VersionsVerdict(accepted)])

\* net.tls.cert_chain: reads until a Certificate message is complete, the
\* peer stops or 64 KiB are in; every chunk has its own timeout.  A failure
\* to send is not caught; one while reading ends the reading, as its end does.
NetTlsCertChain ==
  Socket(6, Quiet,
    << Turn(6, Quiet, Raises, Quiet, [r \in {"part"} |-> Go({})]),
       Turn(6, Quiet, Quiet, Quiet,
         [r \in [key : {"none", "tinggi", "odd", "not_der"},
                  sig : {"info", "sangat-tinggi"}] |->
            CASE r.key \in {"none", "not_der"} -> Quiet
              [] r.key = "odd"        -> Raises
              [] OTHER -> Stop({Graded(IF r.sig = "info" THEN r.key ELSE r.sig)})]) >>)

\* net.tls.cert_chain_tls13 completes the handshake; whatever goes wrong in
\* it is silence.  The certificates are judged outside of that guard: one
\* that does not parse is left out, a key type the cryptography package does
\* not know raises, and what came before it stays.
NetTlsCertChainTls13 ==
  Socket(6, Quiet,
    << Turn(6, Quiet, Quiet, Quiet, [r \in {"part", "undecryptable"} |->
                                       IF r = "part" THEN Go({}) ELSE Quiet]),
       Turn(6, Quiet, Quiet, Quiet,
         [r \in {"hello_only", "leaf", "leaf_and_odd", "odd", "not_der"} |->
            CASE r = "hello_only"   -> Noted
              [] r = "leaf"         -> Stop({Graded("tinggi"), Graded("sederhana")})
              [] r = "leaf_and_odd" -> Raise({Graded("tinggi")})
              [] r = "odd"          -> Raises
              [] OTHER              -> Stop({Graded("sederhana")})]) >>)

-----------------------------------------------------------------------------
(* Other services *)

\* net.ports.tcp: all ports at once, the open ones noted when all are known.
NetPortsTcp ==
  Summed([Socket(1, Quiet, << Turn(0, Never, Never, Never, [r \in {"open"} |-> Count({})]) >>)
            EXCEPT !.items = {2}],
         [ports \in SUBSET (1..2) |-> IF ports = {} THEN {} ELSE {Note}])

\* net.ports.udp: silence counts as open or filtered, an ICMP error as closed.
NetPortsUdp ==
  LET maybe == Stop({Finding("info", "low")})
  IN Each(Datagram(0, Noted, << Turn(2, maybe, Noted, Never, [r \in {"reply"} |-> maybe]) >>))

\* net.ct.crtsh asks with a blocking client: nothing can cancel it.  Any
\* failure is an empty answer, an entry that is no object raises.
NetCtCrtsh ==
  Look(Quiet, [entries \in {"none", "objects", "other"} |->
    CASE entries = "none"    -> Quiet
      [] entries = "objects" -> Stop({Finding("sederhana", "med")})
      [] OTHER               -> Raises])

\* Mutated: writer.close() is not in a finally.
NetRdpNegotiationNoFinally ==
  Program({"tcp"}, 5, Noted, [Finally EXCEPT !.raise = {"tcp"}],
    << Turn(5, Quiet, Raises, Quiet, [r \in {"rdp"} |-> Stop({Finding("sangat-tinggi", "crit")})]) >>)

\* net.rdp.negotiation
NetRdpNegotiation ==
  Socket(5, Noted,
    << Turn(5, Quiet, Raises, Quiet,
         [r \in {"part", "rdp", "tls", "failure", "other"} |->
            CASE r = "rdp"     -> Stop({Finding("sangat-tinggi", "crit")})
              [] r = "tls"     -> Stop({Finding("tinggi", "high")})
              [] r = "failure" -> Noted
              [] OTHER         -> Quiet]) >>)

\* net.smb.dialect: a reply under 80 bytes is only looked at for SMB 1.
NetSmbDialect ==
  Socket(5, Noted,
    << Turn(5, Quiet, Raises, Quiet,
         [r \in {"part", "smb1", "smb2", "smb3"} |->
            CASE r \in {"smb1", "smb2"} -> Stop({Finding("sangat-tinggi", "crit")})
              [] r = "smb3"             -> Stop({Finding("tinggi", "high")})
              [] OTHER                  -> Quiet]) >>)

\* net.telnet.plaintext: the server's opening bytes.
NetTelnetPlaintext ==
  Socket(5, Noted,
    << Turn(5, Quiet, Raises, Quiet,
         [r \in {"iac", "banner"} |->
            CASE r = "iac"    -> Stop({Finding("sangat-tinggi", "crit")})
              [] r = "banner" -> Stop({Finding("tinggi", "high")})
              [] OTHER        -> Quiet]) >>)

(***************************************************************************)
(* net.ssh.handshake: the banner, then packets until a KEXINIT, at most    *)
(* five (one other packet is enough to tell).  A banner longer than the    *)
(* reader's limit and a packet length of zero raise.                       *)
(***************************************************************************)
SshPacket(last) ==
  Turn(10, Quiet, Raises, Quiet,
    [r \in {"zero", "other", "strong", "weak"} |->
       CASE r = "zero"   -> Raises
         [] r = "other"  -> IF last THEN Quiet ELSE Go({})
         [] r = "strong" -> Noted
         [] r = "weak"   -> Stop({Note, Graded("tinggi"), Graded("sangat-tinggi")})])

NetSshHandshake ==
  Socket(10, Noted,
    << Turn(5, Quiet, Raises, Quiet,
         [r \in {"banner", "endless"} |-> IF r = "banner" THEN Go({}) ELSE Raises]),
       SshPacket(FALSE), SshPacket(TRUE) >>)

\* net.kerberos.asreq records that something answers; it closes the writer
\* after the read, without a finally.
NetKerberosAsreq ==
  Program({"tcp"}, 5, Noted,
    [Finally EXCEPT !.raise = {"tcp"}, !.cancel = {"tcp"}],
    << Turn(5, Noted, Raises, Noted, [r \in {"reply"} |-> Noted]) >>)

\* classify_etype
ClassifyEtype(e) ==
  CASE e \in {1, 2, 3, 23, 24} -> "sangat-tinggi"
    [] e = 16                  -> "tinggi"
    [] e \in {17, 19}          -> "sederhana"
    [] e \in {18, 20}          -> "rendah"
    [] OTHER                   -> "info"

\* net.kerberos.etypes: a length and a body; parse_kdc_reply gives the etypes
\* that the KDC echoes, none for an error without ETYPE-INFO2 or for garbage.
NetKerberosEtypes ==
  Socket(6, Quiet,
    << Turn(6, Quiet, Quiet, Quiet, [r \in {"length"} |-> Go({})]),
       Turn(6, Quiet, Quiet, Quiet,
         [es \in {{}, {18}, {17, 23}, {16, 99}} |->
            IF es = {} THEN Noted
                       ELSE Stop({Graded(ClassifyEtype(e)) : e \in es})]) >>)

-----------------------------------------------------------------------------
(* Datagrams: connecting is local, and an unreachable port shows as an    *)
(* OSError of the receive (ICMP), or as silence                            *)

\* Mutated: silence counts as an answer.
NetTftpServiceSilent ==
  Datagram(0, Noted,
    << Turn(3, Stop({Finding("tinggi", "high")}), Noted, Quiet, [r \in {"other"} |-> Quiet]) >>)

\* net.tftp.service
NetTftpService ==
  Datagram(0, Noted,
    << Turn(3, Quiet, Noted, Quiet,
         [r \in {"data", "error", "other"} |->
            IF r \in {"data", "error"} THEN Stop({Finding("tinggi", "high")})
                                       ELSE Quiet]) >>)

\* net.snmp.version: any BER sequence in reply counts.
NetSnmpVersion ==
  Datagram(0, Noted,
    << Turn(3, Quiet, Noted, Quiet,
         [r \in {"sequence", "other"} |->
            IF r = "sequence" THEN Stop({Finding("sangat-tinggi", "crit")})
                              ELSE Quiet]) >>)

\* net.ike.v1v2
NetIkeV1V2 ==
  Datagram(0, Noted,
    << Turn(3, Noted, Noted, Quiet,
         [r \in {"short", "ike"} |->
            IF r = "ike" THEN Stop({Finding("tinggi", "high")}) ELSE Quiet]) >>)

\* Mutated: only the timeout is no reply.
NetIkeTransformsRaises ==
  Datagram(3, Raises, << Turn(3, Noted, Raises, Noted, [r \in {"other"} |-> Noted]) >>)

\* net.ike.transforms: every fault is "no reply"; a reply that is malformed or
\* has no SA payload has no transforms.
NetIkeTransforms ==
  Datagram(3, Noted,
    << Turn(3, Noted, Noted, Noted,
         [r \in SUBSET {"sangat-tinggi", "tinggi", "pqc-ready"} |->
            IF r = {} THEN Noted ELSE Stop(ClassesIn(r))]) >>)

-----------------------------------------------------------------------------
(* Industrial protocols without cryptography.  Whoever accepts the         *)
(* connection is reported, whatever it answers; over UDP nothing has to    *)
(* answer, and the protocol object ignores ICMP errors.                    *)

Plain == Finding("sangat-tinggi", "high")

OTPlain(blank, judge) ==
  Each(Socket(3, Noted, << Turn(3, blank, Raises, blank, judge) >>))

OTModbusTcp == OTPlain(Stop({Plain}), [r \in {"short", "device_id"} |-> Stop({Plain})])

OTS7Comm == OTPlain(Stop({Plain}), [r \in {"cotp_cc", "other"} |-> Stop({Plain})])

OTIec104 == OTPlain(Stop({Plain}), [r \in {"startdt_con", "other"} |-> Stop({Plain})])

OTIec61850Mms == OTPlain(Stop({Plain}), [r \in {"tpkt", "other"} |-> Stop({Plain})])

OTEthernetIp == OTPlain(Stop({Plain}), [r \in {"identity", "other"} |-> Stop({Plain})])

\* Byte 0x78 anywhere behind the header is taken for secure authentication.
OTDnp3Tcp ==
  OTPlain(Stop({Plain}), [r \in {"status", "has_78", "other"} |->
             IF r = "has_78" THEN Stop({Finding("sederhana", "med")})
                             ELSE Stop({Plain})])

\* The SecurityPolicy URIs in the answer.  The name of a policy that is not
\* weak is no algorithm to classify(): it is INFO, and graded MED.
OTOpcUa ==
  OTPlain(Noted, [r \in SUBSET {"None", "Basic256", "Basic256Sha256"} |->
             IF r = {} THEN Noted
             ELSE Stop({IF p \in {"None", "Basic256"} THEN Plain
                        ELSE Finding("info", "med") : p \in r})])

OTDatagram(blank, judge) ==
  Each(Datagram(0, Noted, << Turn(2, blank, Never, blank, judge) >>))

OTBacnet == OTDatagram(Stop({Plain}), [r \in {"bvlc", "other"} |-> Stop({Plain})])

OTGtp == OTDatagram(Stop({Plain}), [r \in {"gtp", "other"} |-> Stop({Plain})])

\* run_dtls_probe: openssl s_client, which is killed on a timeout.
RunDtlsProbe ==
  Tool(10, Noted, Kills, Noted,
    [r \in [cipher : BOOLEAN, classes : SUBSET {"sangat-tinggi", "tinggi", "sederhana"}] |->
       IF ~r.cipher THEN Noted ELSE Stop(ClassesIn(r.classes))])

OTCoapDtls == Each(RunDtlsProbe)
=============================================================================
