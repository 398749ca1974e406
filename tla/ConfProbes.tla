----------------------------- MODULE ConfProbes -----------------------------
(***************************************************************************)
(* The probes that read the configuration of servers, proxies, databases,  *)
(* brokers and VPNs, one definition per probe.  A file is what its regular *)
(* expressions find in it: protocols, cipher lists, curves, options.       *)
(***************************************************************************)
EXTENDS Programs, FiniteSets

\* One word of a cipher list, with its class and whether it is excluded
\* ("!RC4", "-SSLv3").  Words that name a set of ciphers are left out.
Words == [cls : {"sangat-tinggi", "tinggi", "info"}, excluded : BOOLEAN]

\* The findings for a cipher list.  The mark is stripped before the word is
\* classified, so an excluded cipher is reported like any other.
CipherFindings(ws) == {Graded(w.cls) : w \in {x \in ws : x.cls \in Weak}}

\* A bound on lists: at most two words.
WordLists == {ws \in SUBSET Words : \A v, w, x \in ws : v = w \/ w = x \/ v = x}

\* TLS settings: whether an old protocol is named, and the ciphers.
TlsTexts == [old : BOOLEAN, ciphers : WordLists]
TlsText(t) == If(t.old, Broken) \union CipherFindings(t.ciphers)

-----------------------------------------------------------------------------
(* Web servers and proxies *)

FsConfNginx == Config([t \in TlsTexts |-> Stop(TlsText(t))])

\* `SSLProtocol -SSLv3' names SSLv3, too: the sign is stripped.
FsConfApache == Config([t \in TlsTexts |-> Stop(TlsText(t))])

\* ssl-min-ver, the force options (no-tlsv13 among them) and the ciphers.
FsConfHaproxy ==
  Config([t \in [tls : TlsTexts, force : BOOLEAN] |->
            Stop(TlsText(t.tls) \union If(t.force, Broken))])

\* fs.conf.traefik: _suite_classification knows old ciphers and static RSA.
FsConfTraefik ==
  Config([t \in [loads : BOOLEAN, old : BOOLEAN,
                 suites : SUBSET {"CBC_SHA", "static_RSA", "ECDHE_GCM"}, nistCurve : BOOLEAN] |->
            IF ~t.loads THEN Quiet
            ELSE Stop(If(t.old, Broken)
                      \union If("CBC_SHA" \in t.suites, Broken)
                      \union If("static_RSA" \in t.suites, Graded("tinggi"))
                      \union If(t.nistCurve, Graded("tinggi")))])

\* fs.conf.envoy: a curve that is not post-quantum counts as classical,
\* whatever classify() makes of its name.
FsConfEnvoy ==
  Config([t \in [loads : BOOLEAN, tls : TlsTexts, curves : SUBSET {"pqc-ready", "tinggi", "info"}] |->
            IF ~t.loads THEN Quiet
            ELSE Stop(TlsText(t.tls) \union If(t.curves \ {"pqc-ready"} # {}, Graded("tinggi")))])

\* _classify_cipher of fs.conf.caddy: the suite's own class if it is weak,
\* else that of its worst part.
CaddyCipher(s) == IF s.whole \notin Weak /\ s.brokenPart THEN "sangat-tinggi" ELSE s.whole

\* A curve list with one post-quantum entry is skipped as a whole; a key type
\* is looked up in a table.
CaddyCurves(cs) == IF "pqc-ready" \in cs THEN {} ELSE {Graded(c) : c \in cs \intersect Weak}

FsConfCaddy ==
  Config([t \in [json : {"no", "yes", "malformed"}, old : BOOLEAN,
                 suite : [whole : {"info", "tinggi"}, brokenPart : BOOLEAN],
                 curves : SUBSET {"pqc-ready", "tinggi", "info"},
                 key : {"none", "sangat-tinggi", "tinggi"}] |->
            LET policy == If(t.old, Broken)
                            \union If(CaddyCipher(t.suite) \in Weak, Graded(CaddyCipher(t.suite)))
            IN CASE t.json = "malformed" -> Quiet
                 [] t.json = "yes"       -> Stop(policy)
                 [] OTHER -> Stop(policy \union CaddyCurves(t.curves)
                                  \union If(t.key # "none", Graded(t.key)))])

(***************************************************************************)
(* fs.conf.f5: the body of each SSL profile, found by counting braces (a   *)
(* body that never closes goes on to the end of the file).  BraceBody is   *)
(* the index behind the body that starts at `start'; text is a sequence of *)
(* "{", "}" and other words.                                               *)
(***************************************************************************)
Depth(text, start, i) ==
  1 + Cardinality({j \in start..i : text[j] = "{"})
    - Cardinality({j \in start..i : text[j] = "}"})

BraceBody(text, start) ==
  LET closed == {i \in start..Len(text) : Depth(text, start, i) = 0}
  IN IF closed = {} THEN Len(text) + 1
     ELSE CHOOSE i \in closed : \A j \in closed : i <= j

\* The words of the first profile in a text that is opened at its first brace.
ProfileWords(text) == {text[i] : i \in 2..(BraceBody(text, 2) - 1)}

F5Texts == {<<"{">> \o rest : rest \in [1..4 -> {"{", "}", "no-tlsv1.3", "RC4"}]}

FsConfF5 ==
  Config([text \in F5Texts |->
            LET body == ProfileWords(text)
            IN Stop(If("no-tlsv1.3" \in body, Broken) \union If("RC4" \in body, Broken))])

\* _classify_cipher of fs.conf.netscaler: a broken fragment, else the worst
\* class of the name's parts.
NetscalerCipher(fragment, parts) ==
  CASE fragment \/ "sangat-tinggi" \in parts -> "sangat-tinggi"
    [] "tinggi" \in parts                    -> "tinggi"
    [] OTHER                                 -> "none"

FsConfNetscaler ==
  Config([t \in [flag : {"none", "ssl3", "tls12", "tls13"}, enabled : BOOLEAN, fragment : BOOLEAN,
                 parts : SUBSET {"sangat-tinggi", "tinggi", "info"}] |->
            LET cipher == NetscalerCipher(t.fragment, t.parts)
            IN Stop(If(t.flag = "ssl3" /\ t.enabled, Broken)
                    \union If(t.flag = "tls13" /\ ~t.enabled, Graded("tinggi"))
                    \union If(cipher # "none", Graded(cipher)))])

\* fs.conf.openssl_cnf: the legacy provider is named and activated.
FsConfOpensslCnf ==
  Config([t \in [named : BOOLEAN, activated : BOOLEAN] |->
            Stop(If(t.named /\ t.activated, Finding("sangat-tinggi", "high")))])

(***************************************************************************)
(* classify_cipher_token and classify_suite: classify() knows the short    *)
(* names; of the RFC names it knows none, and then a weak fragment decides *)
(* and, for a suite, its mode and key exchange.                            *)
(***************************************************************************)
Tokens == [direct : {"sangat-tinggi", "tinggi", "info"}, fragment : BOOLEAN]

ClassifyCipherToken(t) ==
  IF t.direct = "info" /\ t.fragment THEN "sangat-tinggi" ELSE t.direct

RfcSuites == [token : Tokens, cbcSha : BOOLEAN, kex : {"none", "static", "ephemeral"}]

ClassifySuite(s) ==
  LET base == ClassifyCipherToken(s.token)
  IN CASE base = "sangat-tinggi" \/ s.cbcSha -> "sangat-tinggi"
       [] s.kex # "none"                     -> "tinggi"
       [] OTHER                              -> base

TokenFindings(t) == If(ClassifyCipherToken(t) \in Weak, Graded(ClassifyCipherToken(t)))

\* fs.conf.ibmi_sysval: *OPSYS leaves the protocols to the system; a suite
\* without a class is still a suite, and a recognised file ends with a note.
FsConfIbmiSysval ==
  Config([t \in [old : BOOLEAN, opsys : BOOLEAN, suites : {{}} \union {{s} : s \in RfcSuites}] |->
            Stop(If(t.old, Broken) \union If(t.opsys, Graded("sederhana"))
                 \union {Graded(IF ClassifySuite(s) = "info" THEN "sederhana" ELSE ClassifySuite(s))
                           : s \in t.suites}
                 \union If(t.old \/ t.opsys \/ t.suites # {}, Note))])

-----------------------------------------------------------------------------
(* SSH *)

\* parse_ssh_config: every algorithm in the lists, good ones included; the
\* sign before a list is stripped, so `Ciphers -3des-cbc' reports what it
\* removes.
SshClasses == {"sangat-tinggi", "tinggi", "sederhana", "rendah", "pqc-ready", "info"}
ParseSshConfig == [algs \in SUBSET SshClasses |-> Stop(ClassesIn(algs))]

FsConfSshd == Config(ParseSshConfig)
HostSshClientConfig == Config(ParseSshConfig)
HostSshServerConfig == Config(ParseSshConfig)

\* host.ssh.moduli: the smallest modulus of the file; a column holds one bit
\* less than the size.
ModuliClass(bits) == IF bits + 1 < 2048 THEN "sangat-tinggi" ELSE "tinggi"

HostSshModuli ==
  Look(Quiet, [sizes \in SUBSET {1023, 2047, 3071, 4095} |->
    LET small == {b \in sizes : \A c \in sizes : b <= c}
    IN Stop({Graded(ModuliClass(b)) : b \in {x \in small : x + 1 < 3072}})])

-----------------------------------------------------------------------------
(* Libraries and services of the host *)

HostOpenSSLConfig ==
  Config([t \in [named : BOOLEAN, activated : BOOLEAN] |->
            Stop(If(t.named /\ t.activated, Finding("sangat-tinggi", "high")))])

\* host.krb5.config emits when all files have been read: one look.
HostKrb5Config ==
  Look(Raises, [t \in [enctypes : SUBSET {"des", "rc4"}, allowWeak : BOOLEAN, pkinit : BOOLEAN] |->
    Stop(If("des" \in t.enctypes, Broken) \union If("rc4" \in t.enctypes, Graded("tinggi"))
         \union If(t.allowWeak, Graded("tinggi")) \union If(t.pkinit, Graded("sederhana")))])

(***************************************************************************)
(* host.java.security: java.security folds physical lines that end with a  *)
(* backslash into one property; a later definition of the property         *)
(* replaces an earlier one.  A line keeps whether it begins the property   *)
(* jdk.tls.disabledAlgorithms, whether it continues, and what it disables. *)
(***************************************************************************)
JavaLines == [tls : BOOLEAN, continues : BOOLEAN, old : BOOLEAN, weak : BOOLEAN,
              floor : {"none", "low", "ok"}]
JavaTexts == [1..2 -> JavaLines]

\* _logical_lines: the physical lines that line i starts.
LogicalLine(text, i) ==
  {j \in i..Len(text) : \A k \in i..(j - 1) : text[k].continues}

Starts(text) == {i \in 1..Len(text) : i = 1 \/ ~text[i - 1].continues}

\* _parse: the lines of the last definition.
DisabledTls(text) ==
  LET defs == {i \in Starts(text) : text[i].tls}
  IN IF defs = {} THEN {}
     ELSE LogicalLine(text, CHOOSE i \in defs : \A j \in defs : j <= i)

\* _emit_gaps: what the policy leaves enabled; of two floors the last counts.
JavaGaps(text) ==
  LET lines == DisabledTls(text)
      floors == {i \in lines : text[i].floor # "none"}
      lowest == CHOOSE i \in floors : \A j \in floors : j <= i
  IN If(\A i \in lines : ~text[i].old, Graded("tinggi"))
     \union If(\A i \in lines : ~text[i].weak, Broken)
     \union If(floors = {}, Graded("sederhana"))
     \union If(floors # {} /\ text[lowest].floor = "low", Graded("tinggi"))

\* _discover catches what is_dir() and is_file() raise.
HostJavaSecurity ==
  Walk(Quiet, Quiet, [text \in JavaTexts |-> Stop({Note} \union JavaGaps(text))])

-----------------------------------------------------------------------------
(* Message brokers *)

\* _scan of the broker probes: old protocols and cipher lists, plus one
\* setting of the product.
BrokerTexts == [old : BOOLEAN, ciphers : {{}} \union {{t} : t \in Tokens}, flag : BOOLEAN]
BrokerText(t) == If(t.old, Broken) \union UNION {TokenFindings(c) : c \in t.ciphers}

MqKafkaTls == Config([t \in BrokerTexts |-> Stop(BrokerText(t) \union If(t.flag, Broken))])

MqMqttBroker ==
  Config([t \in BrokerTexts |-> Stop(BrokerText(t) \union If(t.flag, Graded("tinggi")))])

MqRabbitmqTls == Config([t \in BrokerTexts |-> Stop(BrokerText(t) \union If(t.flag, Note))])

\* mq.nats.tls looks at ciphers only.
MqNatsTls ==
  Config([t \in BrokerTexts |-> Stop(BrokerText([t EXCEPT !.old = FALSE]) \union If(t.flag, Note))])

-----------------------------------------------------------------------------
(* Databases *)

DbMssqlTde ==
  Config([t \in [tls : TlsTexts, force : {"unset", "0", "1"}] |->
            Stop(TlsText(t.tls) \union If(t.force = "0", Graded("tinggi"))
                 \union If(t.force = "1", Note))])

DbMysqlKeyring ==
  Config([t \in [plugin : {"none", "file", "other"}, data : BOOLEAN,
                 encrypt : {"unset", "OFF", "ON"}] |->
            Stop(If(t.plugin = "file", Graded("sederhana"))
                 \union If(t.plugin = "other" \/ t.data \/ t.encrypt = "ON", Note))])

DbMongoEncryptedStorage ==
  Config([t \in [keyfile : BOOLEAN, mode : {"unset", "CBC", "GCM"}, kmip : BOOLEAN] |->
            Stop(If(t.mode = "CBC", Graded("tinggi"))
                 \union If(t.keyfile \/ t.mode = "GCM" \/ t.kmip, Note))])

\* db.pg.pgcrypto: the words count wherever they stand, in a comment as well.
DbPgPgcrypto ==
  Config([t \in [pgcrypto : BOOLEAN, words : SUBSET {"sangat-tinggi", "info"}] |->
            Stop(If(t.pgcrypto, Note) \union ClassesIn(t.words \intersect Weak))])

-----------------------------------------------------------------------------
(* VPNs *)

\* _peer_psk_coverage over the sections of a WireGuard file.
Sections == [peer : BOOLEAN, psk : BOOLEAN]
PeerPskCoverage(secs) ==
  << Cardinality({i \in DOMAIN secs : secs[i].peer}),
     Cardinality({i \in DOMAIN secs : secs[i].peer /\ secs[i].psk}) >>

\* A pre-shared key helps only where every peer has one.
WireguardClass(coverage) ==
  IF coverage[1] > 0 /\ coverage[2] = coverage[1] THEN "sederhana" ELSE "tinggi"

VpnWireguard ==
  Config([t \in [wireguard : BOOLEAN, secs : [1..2 -> Sections]] |->
            Stop(If(t.wireguard, Graded(WireguardClass(PeerPskCoverage(t.secs)))))])

VpnOpenvpnConfig == Config([t \in TlsTexts |-> Stop(TlsText(t))])

VpnTailscaleState ==
  Look(Raises, [detected \in BOOLEAN |-> Stop(If(detected, Graded("tinggi")))])

-----------------------------------------------------------------------------
(* Applications *)

\* app.spring.properties opens what the glob finds without asking is_file().
AppSpringProperties ==
  Walk(Quiet, Quiet, [t \in [tls : TlsTexts, jks : BOOLEAN] |->
    Stop(TlsText(t.tls) \union If(t.jks, Finding("tinggi", "med")))])

\* app.nginx.jwt_validation: the severity is HIGH for either class.
AppNginxJwtValidation ==
  Config([t \in SUBSET {"hs256", "other"} |->
            Stop({Finding(IF d = "hs256" THEN "sangat-tinggi" ELSE "tinggi", "high") : d \in t})])

\* app.jwt.env_alg: the expression ignores case and the table does not, so
\* `NONE' and `hs256' are found and then filed as information.
JwtAlgClass(a) ==
  CASE ~a.spelt        -> "info"
    [] a.alg = "none"  -> "sangat-tinggi"
    [] a.alg = "HS384" -> "sederhana"
    [] a.alg = "HS512" -> "rendah"
    [] OTHER           -> "tinggi"

AppJwtEnvAlg ==
  Config([t \in [algs : {{}} \union {{a} : a \in [alg : {"none", "HS256", "HS384", "HS512", "RS256"},
                                                  spelt : BOOLEAN]},
                 secret : {"none", "short", "long"}] |->
            Stop({Graded(JwtAlgClass(a)) : a \in t.algs}
                 \union If(t.secret = "short", Graded("tinggi")))])
=============================================================================
