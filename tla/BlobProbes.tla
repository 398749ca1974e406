----------------------------- MODULE BlobProbes -----------------------------
(***************************************************************************)
(* The probes that take binary containers apart: executables, databases    *)
(* and packet captures.  One definition per probe.                         *)
(***************************************************************************)
EXTENDS Programs, Capture

\* The entries of a table up to the first that ends it.
Before(entries, ends) ==
  {entries[i] : i \in {j \in DOMAIN entries : \A k \in 1..j : entries[k] \notin ends}}

-----------------------------------------------------------------------------
(* Executables *)

Libs == {"openssl", "gnutls"}

(***************************************************************************)
(* _elf_needed.  The section table stops at a header that is cut off; the  *)
(* first dynamic section counts, if the section its link names is there.   *)
(* Its entries count up to a DT_NULL or the end of the file.               *)
(***************************************************************************)
ElfNeeded(f) ==
  LET kept == {i \in DOMAIN f.sections : \A k \in 1..i : f.sections[k] # "cut"}
  IN IF (\E i \in kept : f.sections[i] = "dynamic") /\ f.link \in kept
     THEN Before(f.entries, {"null", "cut"}) ELSE {}

\* _pe_imports: a name whose address lies in no section is left out, a zero
\* descriptor ends the table.
PeImports(f) ==
  IF f.link = 0 THEN {} ELSE Before(f.entries, {"null", "cut"}) \ {"unmapped"}

\* _macho_dylibs: of a fat file the first architecture only; a command with a
\* size under eight ends the list.
MachoDylibs(f) == IF f.link = 0 THEN {} ELSE Before(f.entries, {"null", "cut"})

Linked(f) ==
  CASE f.format = "elf"   -> ElfNeeded(f)
    [] f.format = "pe"    -> PeImports(f)
    [] f.format = "macho" -> MachoDylibs(f)

\* What _parse_ver gives for a library without a version.
NoVersion == <<0, 0>>

\* A file: its format, its tables, the version that the banner of OpenSSL in
\* it shows, an algorithm known by its constants, and whether the scan has
\* reached its cap with it.
Binaries ==
  [format : {"none", "elf", "pe", "macho"}, sections : [1..2 -> {"dynamic", "other", "cut"}],
   link : {0, 2}, entries : [1..2 -> {"openssl", "unmapped", "null", "cut"}],
   banner : {NoVersion, <<3, 4>>, <<3, 5>>}, constant : {"none", "sangat-tinggi", "sederhana"},
   full : BOOLEAN]

\* _classify_lib
LibClass(lib, version) ==
  IF lib = "openssl" /\ (version[1] > 3 \/ (version[1] = 3 /\ version[2] >= 5))
  THEN "pqc-ready" ELSE "sederhana"

\* _scan_file: linked libraries, which take the version of a banner; banners;
\* and if there is neither, constants.
ScanBinary(f) ==
  LET libs == (Linked(f) \intersect Libs) \union (IF f.banner = NoVersion THEN {} ELSE {"openssl"})
  IN CASE f.format = "none" -> {}
       [] libs # {}         -> {Graded(LibClass(l, f.banner)) : l \in libs}
       [] OTHER             -> If(f.constant # "none", Graded(f.constant))

\* fs.binary.crypto lets the loop run now and then, and says so when it stops
\* at its cap.  _iter_files and the scan of a file catch everything.
FsBinaryCrypto ==
  [Walk(Quiet, Quiet,
     [f \in Binaries |->
        IF f.full /\ ScanBinary(f) # {} THEN Halt(ScanBinary(f) \union {Note})
                                        ELSE Stop(ScanBinary(f))])
   EXCEPT !.yields = TRUE]

-----------------------------------------------------------------------------
(* Databases *)

\* What _scan_value finds in a cell.  A private key is reported however it is
\* encrypted; a certificate or public key that does not parse is not.
CellFinding(c) ==
  CASE c = "private_key"                  -> {Broken}
    [] c \in {"rsa_2048_cert", "ssh-dss"} -> {Graded("sangat-tinggi")}
    [] c \in {"ec_public_key", "ssh-rsa"} -> {Graded("tinggi")}
    [] OTHER                              -> {}

Cells == {"text", "bad_cert", "private_key", "rsa_2048_cert", "ssh-rsa", "corrupt_page"}

\* _iter_sqlite_hits over two tables: a file that is no database has none, and
\* an error while rows are read ends the whole file, findings before it kept.
SqliteHits(d) ==
  IF ~d.opens THEN {} ELSE UNION {CellFinding(c) : c \in Before(d.cells, {"corrupt_page"})}

FsDbCrypto ==
  Walk(Quiet, Quiet,
    [d \in [kind : {"sqlite", "dump", "other"}, opens : BOOLEAN, cells : [1..2 -> Cells],
            full : BOOLEAN] |->
       LET hits == CASE d.kind = "sqlite" -> SqliteHits(d)
                     [] d.kind = "dump"   -> UNION {CellFinding(c) : c \in ToSet(d.cells)}
                     [] OTHER             -> {}
       IN Stop(hits \union If(d.full /\ hits # {}, Note))])

-----------------------------------------------------------------------------
(* Packet captures *)

\* net.sniff.live: the capture runs in a thread that a cancellation does not
\* stop; its own deadline, with the runner's limit above it, ends it.
NetSniffLive ==
  Compared(Program({}, 0, Noted, Finally,
    << Turn(15, Never, Noted, Never,
         [c \in Captures |->
            LET seen == HandshakeMessages(ReassembleStream(c.segs))
            IN IF seen = {} THEN Noted
               ELSE Stop(If(<<0, 1>> \in seen, Graded("tinggi"))
                         \union If(<<2>> \in seen, Broken))]) >>))

\* _analyze of fs.pcap.crypto, packet by packet.  Of a client's offer the
\* suites count, and of its groups the post-quantum ones.
PacketFinding(p) ==
  If("suites" \in ClientHello(p), Graded("tinggi"))
    \union If("groups" \in ClientHello(p), Graded("pqc-ready"))
    \union If(p \in {"old_version", "ssh_group1"}, Broken)

FsPcapCrypto ==
  Walk(Quiet, Quiet,
    [file \in [form : {"pcap", "pcapng", "other"}, full : BOOLEAN,
               packets : [1..2 -> {"hello", "hello_cut", "hello_cut_in_versions", "old_version",
                                   "ssh_group1", "undecodable", "bad_length"}]] |->
       LET hits == UNION {PacketFinding(p) : p \in IterPackets(file)}
       IN Stop(hits \union If(file.full /\ hits # {}, Note))])
-----------------------------------------------------------------------------
(* Logs of an intrusion detection system *)

(***************************************************************************)
(* fs.zeek.logs.  A file has rows of its source; `observed' are the cells  *)
(* that a row of that source has, each with its class (a version that is   *)
(* not a broken one has none, _classify_version).  Lines that do not parse *)
(* are left out, so a file can have no rows.  A read error in the middle   *)
(* keeps what was emitted and drops the count of rows.  An empty           *)
(* #separator, or JSON nested too deep, raises what _scan_file does not    *)
(* catch.                                                                  *)
(***************************************************************************)
LogRows == [source : {"ssl", "x509", "suricata"}, version : {"none", "sangat-tinggi"},
           suite : {"none", "tinggi", "sederhana"}, curve : {"none", "info", "pqc-ready"}]

\* _analyze_ssl, _analyze_x509 and _analyze_suricata: a suite stands for the
\* cipher, or for the key and signature of a certificate.
Observed(r) ==
  {r.suite} \union (IF r.source = "x509" THEN {} ELSE {r.version})
            \union (IF r.source = "suricata" THEN {} ELSE {r.curve})

\* _EMIT_CLASSES
Emitted == {"sangat-tinggi", "tinggi", "pqc-ready"}

FsZeekLogs ==
  Walk(Quiet, Quiet,
    [f \in [row : LogRows, form : {"rows", "no_rows", "odd"}, breaks : BOOLEAN, full : BOOLEAN] |->
       LET hits == IF f.form = "rows" THEN ClassesIn(Observed(f.row) \intersect Emitted) ELSE {}
       IN CASE f.form = "odd"         -> Raises
            [] f.full /\ hits # {}    -> Halt(hits \union {Note})
            [] OTHER                  -> Stop(hits \union If(f.form = "rows" /\ ~f.breaks, Note))])
=============================================================================
