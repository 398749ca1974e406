----------------------------- MODULE CertChain ------------------------------
(***************************************************************************)
(* fs.cert.chain (fs_cert_chain.py): the certificates of a host assembled  *)
(* into chains.  A certificate keeps its names, its key, the identifiers   *)
(* that link it (0: it has no such extension; the subject key identifier   *)
(* is that of the key) and the hash of its signature.                      *)
(***************************************************************************)
EXTENDS CertProbes, SequencesExt

Certificates == [subject : {"leaf", "A", "B"}, issuer : {"A", "B"}, key : {"RSA-4096", "EC", "RSA-2048", "odd"},
          aki : {"none", "EC", "RSA-2048"}, ca : BOOLEAN, sig : {"SHA1", "SHA256"}]

\* Bound: a leaf and at most two authorities, which may have the same name
\* (a renewed or cross-signed one), sign each other, or share a key.
EndEntities(key) ==
  {c \in Certificates : c.subject = "leaf" /\ ~c.ca /\ c.key = key /\ c.sig = "SHA256"}
Authorities(keys, sigs) ==
  {c \in Certificates : c.subject # "leaf" /\ c.ca /\ c.key \in keys /\ c.sig \in sigs}

Stores ==
  {<<l>> : l \in EndEntities("EC")}
    \union {<<l, a>> : l \in EndEntities("EC"),
                       a \in Authorities({"EC", "RSA-2048", "odd"}, {"SHA1", "SHA256"})}
    \union {<<l, a, b>> : l \in EndEntities("RSA-4096"), a \in Authorities({"EC"}, {"SHA256"}),
                          b \in Authorities({"RSA-2048"}, {"SHA256"})}

\* The first of some certificates of a store, in the order of the walk: what
\* setdefault keeps in by_ski and by_subject.
First(indices) ==
  IF indices = {} THEN 0 ELSE CHOOSE i \in indices : \A j \in indices : i <= j

\* The index of a certificate's issuer, or 0.
Parent(store, c) ==
  LET byKey == {i \in DOMAIN store : store[i].key = c.aki}
      byName == {i \in DOMAIN store : store[i].subject = c.issuer}
  IN IF byKey # {} THEN First(byKey) ELSE First(byName)

\* Mutated: the issuer is looked up by its name only.
LinkByName(store, chain) ==
  LET c == Last(chain)
      p == First({i \in DOMAIN store : store[i].subject = c.issuer})
  IN IF c.subject = c.issuer \/ p = 0 \/ (\E d \in ToSet(chain) : d.subject = store[p].subject)
     THEN chain ELSE Append(chain, store[p])

\* One round of the loop in _walk_and_emit.
Link(store, chain) ==
  LET c == Last(chain)
      p == Parent(store, c)
  IN IF c.subject = c.issuer \/ p = 0 \/ (\E d \in ToSet(chain) : d.subject = store[p].subject)
     THEN chain ELSE Append(chain, store[p])

\* The chain of a leaf, round by round.  A round that adds nothing is the
\* last, and no chain is longer than the store.
Chains(store, leaf) ==
  LET chain[k \in 0..Len(store)] == IF k = 0 THEN <<leaf>> ELSE Link(store, chain[k - 1])
  IN chain
ChainOf(store, leaf) == Chains(store, leaf)[Len(store)]

\* _RANK, the lower the worse.
Rank(c) ==
  CASE c = "sangat-tinggi" -> 0 [] c = "tinggi" -> 1 [] c = "sederhana" -> 2
    [] c = "rendah" -> 3 [] c = "pqc-ready" -> 4 [] OTHER -> 5

\* _chain_classifications, and the weakest of the chain.
ChainClassifications(c) == {KeyClass(c.key), HashClass(c.sig)}

WeakestLink(chain) ==
  LET classes == (UNION {ChainClassifications(c) : c \in ToSet(chain)}) \union {"pqc-ready"}
  IN CHOOSE c \in classes : \A d \in classes : Rank(c) <= Rank(d)

\* A certificate that issues another and is an authority is no leaf.
IsLeaf(store, c) ==
  ~(c.ca /\ \E d \in ToSet(store) : d.issuer = c.subject /\ d.issuer # d.subject)

LeafIndices(store) == {i \in DOMAIN store : IsLeaf(store, store[i])}

\* public_key() of an odd certificate in the chain raises.
Fails(store, i) == \E c \in ToSet(ChainOf(store, store[i])) : c.key = "odd"

\* _emit_chains: the leaves up to the first whose chain cannot be classified.
\* A chain without a weak link is not worth a finding.
EmitChains(store) ==
  LET judged == {i \in LeafIndices(store) : \A k \in LeafIndices(store) : k <= i => ~Fails(store, k)}
  IN {Graded(c) : c \in {WeakestLink(ChainOf(store, store[i])) : i \in judged} \ {"pqc-ready"}}

\* _emit_key_reuse: certificates with one key and different names.
EmitKeyReuse(store) ==
  If(\E c, d \in ToSet(store) : c.key = d.key /\ c.key # "odd" /\ c.subject # d.subject,
     Finding("sederhana", "med"))

FsCertChain ==
  Compared(Look(Raises,
    [store \in Stores |->
       CASE Len(store) < 2                               -> Quiet
         [] \E i \in LeafIndices(store) : Fails(store, i) -> Raise(EmitChains(store))
         [] OTHER -> Stop(EmitChains(store) \union EmitKeyReuse(store))]))

-----------------------------------------------------------------------------
(***************************************************************************)
(* For comparison: all that stands behind a certificate.  B is behind A if *)
(* every set that has A and, with a certificate, its issuer, has B.        *)
(***************************************************************************)
Behind(store, leaf) ==
  LET closed(s) == \A c \in s : c.subject = c.issuer \/ Parent(store, c) = 0
                                 \/ store[Parent(store, c)] \in s
  IN {c \in ToSet(store) : \A s \in SUBSET ToSet(store) : leaf \in s /\ closed(s) => c \in s}
=============================================================================
