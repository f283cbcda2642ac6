-------------------------- MODULE LedgerChainProofs --------------------------
(* Theorems about LedgerChain, for any set of requests and of postings. *)
EXTENDS LedgerChain, LedgerEntriesProofs, SequenceTheorems, TLAPS

\* A request that is inserting has a line left: what makes NextRow a row.
InsertingALine ==
    \A r \in Requests : pc[r] = "insert" => Len(pending[r]) < Len(plan[r])

TypeInv == TypeOK /\ InsertingALine

-----------------------------------------------------------------------------
(* Facts about the operators *)

\* The elements of a finite sequence of elements of S are a finite subset.
LEMMA ToSetFinite ==
    ASSUME NEW S, NEW s \in Seq(S)
    PROVE  ToSet(s) \subseteq S /\ IsFiniteSet(ToSet(s))
<1>1. /\ Len(s) \in Nat
      /\ DOMAIN s = 1 .. Len(s)
      /\ s \in [1 .. Len(s) -> S]
  BY LenProperties
<1>2. ToSet(s) \subseteq S
  BY <1>1 DEF ToSet
<1>3. s \in Surjection(1 .. Len(s), ToSet(s))
  BY <1>1 DEF ToSet, Surjection
<1>4. IsFiniteSet(1 .. Len(s))
  BY <1>1, FS_Interval
<1>5. QED
  BY <1>2, <1>3, <1>4, FS_Surjection

\* Flipping a stored entry gives an entry a caller may post.
LEMMA FlipTyping ==
    ASSUME NEW entry \in StoredEntry
    PROVE  Flip(entry) \in Entry
  BY DEF Flip, StoredEntry, Entry, Directions

\* Storing an entry whose rounded amount is positive gives a stored entry.
LEMMA StoredTyping ==
    ASSUME NEW entry \in Entry, Stored(entry).amount > 0
    PROVE  Stored(entry) \in StoredEntry
  BY DEF Stored, StoredEntry, Entry, Round

\* The entries of a reversal, in any order of the original's rows.
LEMMA ReversalTyping ==
    ASSUME TypeOK, NEW original \in Requests,
           NEW rows \in SetToSeqs(RowsOf(original))
    PROVE  [i \in DOMAIN rows |-> Flip(rows[i].entry)] \in Seq(Entry)
<1> DEFINE n == Cardinality(RowsOf(original))
<1>1. RowsOf(original) \subseteq Row /\ n \in Nat
  <2>1. RowsOf(original) \subseteq ledger
    BY DEF RowsOf
  <2>2. IsFiniteSet(RowsOf(original))
    BY <2>1, FS_Subset DEF TypeOK
  <2>3. QED
    BY <2>1, <2>2, FS_CardinalityType DEF TypeOK
<1>2. rows \in [1 .. n -> RowsOf(original)]
  BY DEF SetToSeqs
<1>3. \A i \in 1 .. n : Flip(rows[i].entry) \in Entry
  BY <1>1, <1>2, FlipTyping DEF Row
<1>4. [i \in 1 .. n |-> Flip(rows[i].entry)] \in [1 .. n -> Entry]
  BY <1>3
<1>5. QED
  BY <1>1, <1>2, <1>4

-----------------------------------------------------------------------------
(* Types *)

LEMMA TipSeenTyping ==
    ASSUME TypeOK, NEW r \in Requests
    PROVE  TipSeenBy(r) \in Hash
<1>1. CASE pending[r] = <<>>
  BY <1>1 DEF TypeOK, TipSeenBy
<1>2. CASE pending[r] # <<>>
  <2>1. Last(pending[r]) \in Row
    BY <1>2 DEF TypeOK, Last
  <2>2. QED
    BY <1>2, <2>1 DEF TipSeenBy, Row
<1>3. QED
  BY <1>1, <1>2

LEMMA NextRowTyping ==
    ASSUME TypeInv, NEW r \in Requests, pc[r] = "insert",
           NextRow(r).entry.amount > 0
    PROVE  /\ NextRow(r) \in Row
           /\ ContentOf(NextRow(r)) \in Content
           /\ NextRow(r).row_hash = Digest(TipSeenBy(r), ContentOf(NextRow(r)))
<1> DEFINE line == Len(pending[r]) + 1
           content == [txn |-> r, line |-> line,
                       entry |-> Stored(plan[r][line])]
<1>1. line \in Nat /\ plan[r][line] \in Entry
  BY DEF TypeInv, TypeOK, InsertingALine
<1>2. Stored(plan[r][line]) \in StoredEntry
  BY <1>1, StoredTyping DEF NextRow
<1>3. content \in Content
  BY <1>1, <1>2 DEF Content
<1>4. Digest(TipSeenBy(r), content) \in Hash
  BY <1>3, TipSeenTyping DEF TypeInv, Digest, Hash
<1>5. drawn[r] \in Nat
  BY DEF TypeInv, TypeOK
<1>6. content = ContentOf(NextRow(r))
  BY DEF NextRow, ContentOf
<1>7. QED
  BY <1>1, <1>2, <1>3, <1>4, <1>5, <1>6, TipSeenTyping
     DEF TypeInv, NextRow, Row

LEMMA InitTyping == Init => TypeInv
  BY FS_EmptySet DEF Init, TypeInv, TypeOK, InsertingALine, Hash, Genesis

LEMMA PostTyping ==
    ASSUME TypeInv, NEW r \in Requests, NEW entries \in Seq(Entry),
           NEW original \in Requests \union {Nobody},
           Post(r, entries, original)
    PROVE  TypeInv'
  BY DEF TypeInv, TypeOK, InsertingALine, Post, Ended

LEMMA RollbackTyping ==
    ASSUME TypeInv, NEW r \in Requests, NEW outcome \in Ended,
           Rollback(r, outcome)
    PROVE  TypeInv'
  BY DEF TypeInv, TypeOK, InsertingALine, Rollback, Ended

LEMMA CommitTyping ==
    ASSUME TypeInv, NEW r \in Requests, Commit(r)
    PROVE  TypeInv'
<1>1. ToSet(pending[r]) \subseteq Row /\ IsFiniteSet(ToSet(pending[r]))
  BY ToSetFinite DEF TypeInv, TypeOK
<1>2. ledger' \subseteq Row /\ IsFiniteSet(ledger')
  BY <1>1, FS_Union DEF TypeInv, TypeOK, Commit
<1>3. tip' \in Hash
  BY TipSeenTyping DEF TypeInv, Commit
<1>4. QED
  BY <1>2, <1>3 DEF TypeInv, TypeOK, InsertingALine, Commit, Ended

\* Every step keeps the types.
LEMMA StepTyping == TypeInv /\ [Next]_vars => TypeInv'
<1> SUFFICES ASSUME TypeInv, [Next]_vars
             PROVE  TypeInv'
  OBVIOUS
<1>1. ASSUME NEW r \in Requests, PostNew(r)
      PROVE  TypeInv'
  BY <1>1, PostTyping, PostingsAssumption DEF PostNew
<1>2. ASSUME NEW r \in Requests, PostReversal(r)
      PROVE  TypeInv'
  <2>1. PICK original \in Requests :
            \E rows \in SetToSeqs(RowsOf(original)) :
               Post(r, [i \in DOMAIN rows |-> Flip(rows[i].entry)], original)
    BY <1>2 DEF PostReversal
  <2>2. QED
    BY <2>1, PostTyping, ReversalTyping DEF TypeInv
<1>3. ASSUME NEW r \in Requests, DrawSeq(r)
      PROVE  TypeInv'
  BY <1>3 DEF TypeInv, TypeOK, InsertingALine, DrawSeq, Ended
<1>4. ASSUME NEW r \in Requests, InsertEntry(r)
      PROVE  TypeInv'
  <2>1. NextRow(r) \in Row
    BY <1>4, NextRowTyping DEF InsertEntry
  <2>2. QED
    BY <1>4, <2>1 DEF TypeInv, TypeOK, InsertingALine, InsertEntry, Ended
<1>5. ASSUME NEW r \in Requests, InsertRefused(r)
      PROVE  TypeInv'
  BY <1>5, RollbackTyping DEF InsertRefused, Ended
<1>6. ASSUME NEW r \in Requests, Commit(r)
      PROVE  TypeInv'
  BY <1>6, CommitTyping
<1>7. ASSUME NEW r \in Requests, CommitRefused(r)
      PROVE  TypeInv'
  BY <1>7, RollbackTyping DEF CommitRefused, Ended
<1>8. ASSUME NEW r \in Requests, Abort(r)
      PROVE  TypeInv'
  BY <1>8, RollbackTyping DEF Abort, Ended
<1>9. CASE UNCHANGED vars
  BY <1>9 DEF TypeInv, TypeOK, InsertingALine, vars
<1>10. QED
  BY <1>1, <1>2, <1>3, <1>4, <1>5, <1>6, <1>7, <1>8, <1>9
     DEF Next, Step, Terminating

\* The types of the ledger's tables and of the requests' own state hold in
\* every state: in particular every stored amount is positive.
THEOREM TypeCorrect == Spec => []TypeOK
<1>1. TypeInv => TypeOK
  BY DEF TypeInv
<1>2. QED
  BY <1>1, InitTyping, StepTyping, PTL DEF Spec

-----------------------------------------------------------------------------
(* The inductive invariant *)

(***************************************************************************)
(* A set of rows continues the chain from its first `base' rows to the     *)
(* hash `top': each row commits to its content, its hash is the part of    *)
(* `top' of its own length, and there is one row for each length.          *)
(***************************************************************************)
Continues(rows, base, top) ==
    /\ \A row \in rows :
          /\ row.row_hash = Digest(row.previous_hash, ContentOf(row))
          /\ Len(row.row_hash) \in base + 1 .. Len(top)
          /\ row.row_hash = SubSeq(top, 1, Len(row.row_hash))
    /\ \A n \in base + 1 .. Len(top) :
          \E row \in rows : Len(row.row_hash) = n
    /\ \A x, y \in rows : Len(x.row_hash) = Len(y.row_hash) => x = y

CommittedInv == Continues(ledger, 0, tip)

\* Only the holder of the tip's lock has rows of its own, and they continue
\* the committed chain.
PendingInv ==
    \A r \in Requests :
        /\ pending[r] # <<>> => tipLock = r
        /\ IsPrefix(tip, TipSeenBy(r))
        /\ Continues(ToSet(pending[r]), Len(tip), TipSeenBy(r))

ChainInv == TypeInv /\ CommittedInv /\ PendingInv

-----------------------------------------------------------------------------
(* Facts about hashes and prefixes *)

\* A prefix of a prefix of a hash is a prefix of the hash.
LEMMA PrefixOfPrefix ==
    ASSUME NEW S, NEW s \in Seq(S), NEW t \in Seq(S), IsPrefix(s, t),
           NEW n \in 0 .. Len(s)
    PROVE  SubSeq(t, 1, n) = SubSeq(s, 1, n)
<1>1. Len(s) \in Nat /\ Len(t) \in Nat /\ n <= Len(t)
  BY LenProperties DEF IsPrefix
<1>2. SubSeq(s, 1, Len(s)) = s
  BY SubSeqFull
<1>3. s = SubSeq(t, 1, Len(s))
  BY <1>2 DEF IsPrefix
<1>4. CASE n = 0
  BY <1>4, SubSeqEmpty
<1>5. CASE n # 0
  <2>1. \A i \in 1 .. Len(s) : s[i] = t[i]
    BY <1>1, <1>3, SubSeqProperties, LenProperties, ElementOfSeq
  <2>2. /\ SubSeq(t, 1, n) \in Seq(S) /\ SubSeq(s, 1, n) \in Seq(S)
        /\ Len(SubSeq(t, 1, n)) = n /\ Len(SubSeq(s, 1, n)) = n
        /\ \A i \in 1 .. n : SubSeq(t, 1, n)[i] = t[i]
        /\ \A i \in 1 .. n : SubSeq(s, 1, n)[i] = s[i]
    <3>1. \A i \in 1 .. n : t[i] \in S /\ s[i] \in S
      BY <1>1, ElementOfSeq
    <3>2. QED
      BY <1>1, <1>5, <3>1, SubSeqProperties
  <2>3. QED
    BY <1>1, <2>1, <2>2, SeqEqual
<1>6. QED
  BY <1>4, <1>5

\* A hash is a prefix of every hash computed from it.
LEMMA DigestExtends ==
    ASSUME NEW h \in Hash, NEW c \in Content
    PROVE  /\ Digest(h, c) \in Hash
           /\ Len(Digest(h, c)) = Len(h) + 1
           /\ IsPrefix(h, Digest(h, c))
           /\ SubSeq(Digest(h, c), 1, Len(h)) = h
<1>1. /\ Append(h, c) \in Seq(Content)
      /\ Len(Append(h, c)) = Len(h) + 1
      /\ \A i \in 1 .. Len(h) : Append(h, c)[i] = h[i]
      /\ Len(h) \in Nat
  BY AppendProperties, LenProperties DEF Hash
<1>2. SubSeq(Append(h, c), 1, Len(h)) = h
  <2>1. \A i \in 1 .. Len(h) : Append(h, c)[i] \in Content
    BY <1>1, ElementOfSeq DEF Hash
  <2>2. /\ SubSeq(Append(h, c), 1, Len(h)) \in Seq(Content)
        /\ Len(SubSeq(Append(h, c), 1, Len(h))) = Len(h)
        /\ \A i \in 1 .. Len(h) :
              SubSeq(Append(h, c), 1, Len(h))[i] = h[i]
    BY <1>1, <2>1, SubSeqProperties
  <2>3. QED
    BY <1>1, <2>2, SeqEqual DEF Hash
<1>3. SubSeq(h, 1, Len(h)) = h
  BY SubSeqFull DEF Hash
<1>4. QED
  BY <1>1, <1>2, <1>3 DEF Digest, IsPrefix, Hash

LEMMA PrefixReflexive ==
    ASSUME NEW h \in Hash
    PROVE  IsPrefix(h, h)
  BY LenProperties DEF IsPrefix, Hash

LEMMA PrefixTransitive ==
    ASSUME NEW a \in Hash, NEW b \in Hash, NEW c \in Hash,
           IsPrefix(a, b), IsPrefix(b, c)
    PROVE  IsPrefix(a, c)
<1>1. Len(a) \in 0 .. Len(b) /\ Len(b) \in Nat /\ Len(c) \in Nat
  BY LenProperties DEF IsPrefix, Hash
<1>2. SubSeq(c, 1, Len(a)) = SubSeq(b, 1, Len(a))
  BY <1>1, PrefixOfPrefix DEF Hash
<1>3. QED
  BY <1>1, <1>2 DEF IsPrefix

\* Nothing continues a chain at its own top.
LEMMA ContinuesEmpty ==
    ASSUME NEW h \in Hash
    PROVE  Continues({}, Len(h), h)
  BY LenProperties DEF Continues, Hash

\* One more row, hashed onto the top, still continues the chain.
LEMMA ContinuesInsert ==
    ASSUME NEW rows \in SUBSET Row, NEW top \in Hash, NEW row \in Row,
           NEW base \in 0 .. Len(top),
           Continues(rows, base, top),
           row.previous_hash = top,
           row.row_hash = Digest(top, ContentOf(row)),
           ContentOf(row) \in Content
    PROVE  Continues(rows \union {row}, base, row.row_hash)
<1> DEFINE new == row.row_hash
<1>1. /\ new \in Hash /\ Len(new) = Len(top) + 1
      /\ IsPrefix(top, new) /\ Len(top) \in Nat /\ base \in Nat
  BY DigestExtends, LenProperties DEF Hash
<1>2. \A x \in rows : /\ Len(x.row_hash) \in base + 1 .. Len(top)
                      /\ x.row_hash = SubSeq(new, 1, Len(x.row_hash))
  <2> TAKE x \in rows
  <2>1. Len(x.row_hash) \in base + 1 .. Len(top)
    BY DEF Continues
  <2>2. SubSeq(new, 1, Len(x.row_hash)) = SubSeq(top, 1, Len(x.row_hash))
    BY <1>1, <2>1, PrefixOfPrefix DEF Hash
  <2>3. QED
    BY <2>1, <2>2 DEF Continues
<1>3. new = SubSeq(new, 1, Len(new)) /\ Len(new) \in base + 1 .. Len(new)
  BY <1>1, SubSeqFull DEF Hash
<1>4. \A x \in rows \union {row} :
         /\ x.row_hash = Digest(x.previous_hash, ContentOf(x))
         /\ Len(x.row_hash) \in base + 1 .. Len(new)
         /\ x.row_hash = SubSeq(new, 1, Len(x.row_hash))
  BY <1>1, <1>2, <1>3 DEF Continues
<1>5. \A n \in base + 1 .. Len(new) :
         \E x \in rows \union {row} : Len(x.row_hash) = n
  <2> TAKE n \in base + 1 .. Len(new)
  <2>1. n \in base + 1 .. Len(top) \/ n = Len(new)
    BY <1>1
  <2>2. QED
    BY <2>1 DEF Continues
<1>6. \A x, y \in rows \union {row} :
         Len(x.row_hash) = Len(y.row_hash) => x = y
  BY <1>1, <1>2 DEF Continues
<1>7. QED
  BY <1>4, <1>5, <1>6 DEF Continues

\* Two adjacent pieces make one chain.
LEMMA ContinuesJoin ==
    ASSUME NEW old \in SUBSET Row, NEW new \in SUBSET Row,
           NEW middle \in Hash, NEW top \in Hash,
           IsPrefix(middle, top),
           Continues(old, 0, middle),
           Continues(new, Len(middle), top)
    PROVE  Continues(old \union new, 0, top)
<1>1. Len(middle) \in Nat /\ Len(top) \in Nat /\ Len(middle) <= Len(top)
  BY LenProperties DEF Hash, IsPrefix
<1>2. \A x \in old : /\ Len(x.row_hash) \in 1 .. Len(middle)
                     /\ x.row_hash = SubSeq(top, 1, Len(x.row_hash))
  <2> TAKE x \in old
  <2>1. Len(x.row_hash) \in 1 .. Len(middle)
    BY DEF Continues
  <2>2. SubSeq(top, 1, Len(x.row_hash)) = SubSeq(middle, 1, Len(x.row_hash))
    BY <1>1, <2>1, PrefixOfPrefix DEF Hash
  <2>3. QED
    BY <2>1, <2>2 DEF Continues
<1>3. \A x \in new : Len(x.row_hash) \in Len(middle) + 1 .. Len(top)
  BY DEF Continues
<1>4. \A x \in old \union new :
         /\ x.row_hash = Digest(x.previous_hash, ContentOf(x))
         /\ Len(x.row_hash) \in 0 + 1 .. Len(top)
         /\ x.row_hash = SubSeq(top, 1, Len(x.row_hash))
  BY <1>1, <1>2, <1>3 DEF Continues
<1>5. \A n \in 0 + 1 .. Len(top) :
         \E x \in old \union new : Len(x.row_hash) = n
  <2> TAKE n \in 0 + 1 .. Len(top)
  <2>1. n \in 0 + 1 .. Len(middle) \/ n \in Len(middle) + 1 .. Len(top)
    BY <1>1
  <2>2. QED
    BY <2>1 DEF Continues
<1>6. \A x, y \in old \union new :
         Len(x.row_hash) = Len(y.row_hash) => x = y
  BY <1>1, <1>2, <1>3 DEF Continues
<1>7. QED
  BY <1>4, <1>5, <1>6 DEF Continues

-----------------------------------------------------------------------------
(* The invariant is inductive *)

LEMMA ToSetAppend ==
    ASSUME NEW S, NEW s \in Seq(S), NEW e \in S
    PROVE  ToSet(Append(s, e)) = ToSet(s) \union {e}
<1>1. /\ DOMAIN s = 1 .. Len(s) /\ Len(s) \in Nat
      /\ DOMAIN Append(s, e) = 1 .. Len(s) + 1
      /\ \A i \in 1 .. Len(s) : Append(s, e)[i] = s[i]
      /\ Append(s, e)[Len(s) + 1] = e
  BY AppendProperties, LenProperties
<1>2. \A i \in 1 .. Len(s) + 1 : i \in 1 .. Len(s) \/ i = Len(s) + 1
  BY <1>1
<1>3. QED
  BY <1>1, <1>2 DEF ToSet

LEMMA ToSetEmpty == ToSet(<<>>) = {}
  BY DEF ToSet

LEMMA InitChain == Init => ChainInv
<1> SUFFICES ASSUME Init PROVE CommittedInv /\ PendingInv
  BY InitTyping DEF ChainInv
<1>1. tip \in Hash /\ Len(tip) = 0
  BY DEF Init, Genesis, Hash
<1>2. CommittedInv
  BY <1>1, ContinuesEmpty DEF Init, CommittedInv
<1>3. \A r \in Requests : pending[r] = <<>> /\ TipSeenBy(r) = tip
  BY DEF Init, TipSeenBy
<1>4. PendingInv
  BY <1>1, <1>3, ContinuesEmpty, PrefixReflexive, ToSetEmpty DEF PendingInv
<1>5. QED
  BY <1>2, <1>4

\* A step that touches neither rows nor the tip nor its lock.
LEMMA ChainUnchanged ==
    ASSUME ChainInv, TypeInv',
           pending' = pending, ledger' = ledger,
           tip' = tip, tipLock' = tipLock
    PROVE  ChainInv'
<1>1. \A r \in Requests : TipSeenBy(r)' = TipSeenBy(r)
  BY DEF TipSeenBy
<1>2. QED
  BY <1>1 DEF ChainInv, CommittedInv, PendingInv

LEMMA RollbackChain ==
    ASSUME ChainInv, TypeInv', NEW r \in Requests, NEW outcome,
           Rollback(r, outcome)
    PROVE  ChainInv'
<1>1. tip' = tip /\ ledger' = ledger /\ tip \in Hash
  BY DEF Rollback, ChainInv, TypeInv, TypeOK
<1>2. CommittedInv'
  BY <1>1 DEF ChainInv, CommittedInv
<1>3. pending'[r] = <<>> /\ \A q \in Requests \ {r} : pending'[q] = pending[q]
  BY DEF Rollback, ChainInv, TypeInv, TypeOK
<1>4. ASSUME NEW q \in Requests
      PROVE  /\ pending'[q] # <<>> => tipLock' = q
             /\ IsPrefix(tip', TipSeenBy(q)')
             /\ Continues(ToSet(pending'[q]), Len(tip'), TipSeenBy(q)')
  <2>1. CASE q = r
    <3>1. TipSeenBy(q)' = tip
      BY <1>1, <1>3, <2>1 DEF TipSeenBy
    <3>2. QED
      BY <1>1, <1>3, <2>1, <3>1, ContinuesEmpty, PrefixReflexive, ToSetEmpty
  <2>2. CASE q # r
    <3>1. pending'[q] = pending[q] /\ TipSeenBy(q)' = TipSeenBy(q)
      BY <1>1, <1>3, <2>2 DEF TipSeenBy
    <3>2. pending'[q] # <<>> => tipLock' = q
      BY <2>2, <3>1 DEF Rollback, ChainInv, PendingInv
    <3>3. QED
      BY <1>1, <3>1, <3>2 DEF ChainInv, PendingInv
  <2>3. QED
    BY <2>1, <2>2
<1>5. QED
  BY <1>2, <1>4 DEF ChainInv, PendingInv

LEMMA InsertChain ==
    ASSUME ChainInv, TypeInv', NEW r \in Requests, InsertEntry(r)
    PROVE  ChainInv'
<1> DEFINE row == NextRow(r)
<1>1. /\ row \in Row /\ ContentOf(row) \in Content
      /\ row.row_hash = Digest(TipSeenBy(r), ContentOf(row))
      /\ row.previous_hash = TipSeenBy(r)
      /\ TipSeenBy(r) \in Hash /\ tip \in Hash /\ pending[r] \in Seq(Row)
  BY NextRowTyping, TipSeenTyping
     DEF ChainInv, TypeInv, TypeOK, InsertEntry, NextRow
<1>2. /\ pending'[r] = Append(pending[r], row)
      /\ \A q \in Requests \ {r} : pending'[q] = pending[q]
      /\ tip' = tip /\ ledger' = ledger /\ tipLock' = r
  BY DEF InsertEntry, ChainInv, TypeInv, TypeOK
<1>3. CommittedInv'
  BY <1>2 DEF ChainInv, CommittedInv
<1>4. TipSeenBy(r)' = row.row_hash
  <2>1. /\ Append(pending[r], row) # <<>>
        /\ Last(Append(pending[r], row)) = row
    BY <1>1, AppendProperties DEF Last
  <2>2. QED
    BY <1>2, <2>1 DEF TipSeenBy
<1>5. IsPrefix(tip, row.row_hash)
  <2>1. IsPrefix(tip, TipSeenBy(r))
    BY DEF ChainInv, PendingInv
  <2>2. /\ row.row_hash \in Hash
        /\ IsPrefix(TipSeenBy(r), row.row_hash)
    BY <1>1, DigestExtends
  <2>3. QED
    BY <1>1, <2>1, <2>2, PrefixTransitive
<1>6. Continues(ToSet(pending'[r]), Len(tip), row.row_hash)
  <2>1. ToSet(pending[r]) \subseteq Row
    BY <1>1, ToSetFinite
  <2>2. Len(tip) \in 0 .. Len(TipSeenBy(r))
    BY <1>1, LenProperties DEF ChainInv, PendingInv, IsPrefix, Hash
  <2>3. Continues(ToSet(pending[r]), Len(tip), TipSeenBy(r))
    BY DEF ChainInv, PendingInv
  <2>4. Continues(ToSet(pending[r]) \union {row}, Len(tip), row.row_hash)
    BY <1>1, <2>1, <2>2, <2>3, ContinuesInsert
  <2>5. ToSet(Append(pending[r], row)) = ToSet(pending[r]) \union {row}
    BY <1>1, ToSetAppend
  <2>6. QED
    BY <1>2, <2>4, <2>5
<1>7. ASSUME NEW q \in Requests, q # r
      PROVE  /\ pending'[q] = <<>>
             /\ IsPrefix(tip', TipSeenBy(q)')
             /\ Continues(ToSet(pending'[q]), Len(tip'), TipSeenBy(q)')
  <2>1. pending[q] = <<>>
    <3>1. tipLock # q
      BY <1>7, NobodyAssumption DEF InsertEntry, TipAvailable
    <3>2. QED
      BY <3>1 DEF ChainInv, PendingInv
  <2>2. TipSeenBy(q)' = TipSeenBy(q) /\ pending'[q] = pending[q]
    BY <1>2, <1>7 DEF TipSeenBy
  <2>3. QED
    BY <1>2, <2>1, <2>2 DEF ChainInv, PendingInv
<1>8. PendingInv'
  <2>1. ASSUME NEW q \in Requests
        PROVE  /\ pending'[q] # <<>> => tipLock' = q
               /\ IsPrefix(tip', TipSeenBy(q)')
               /\ Continues(ToSet(pending'[q]), Len(tip'), TipSeenBy(q)')
    BY <1>2, <1>4, <1>5, <1>6, <1>7
  <2>2. QED
    BY <2>1 DEF PendingInv
<1>9. QED
  BY <1>3, <1>8 DEF ChainInv

LEMMA CommitChain ==
    ASSUME ChainInv, TypeInv', NEW r \in Requests, Commit(r)
    PROVE  ChainInv' /\ IsPrefix(tip, tip')
<1>1. /\ tip' = TipSeenBy(r) /\ ledger' = ledger \union ToSet(pending[r])
      /\ pending'[r] = <<>>
      /\ \A q \in Requests \ {r} : pending'[q] = pending[q]
  BY DEF Commit, ChainInv, TypeInv, TypeOK
<1>2. /\ tip \in Hash /\ tip' \in Hash /\ ledger \subseteq Row
      /\ pending[r] \in Seq(Row) /\ ToSet(pending[r]) \subseteq Row
  BY ToSetFinite DEF ChainInv, TypeInv, TypeOK
<1>3. IsPrefix(tip, tip')
  BY <1>1 DEF ChainInv, PendingInv
<1>4. CommittedInv'
  BY <1>1, <1>2, <1>3, ContinuesJoin DEF ChainInv, CommittedInv, PendingInv
<1>5. ASSUME NEW q \in Requests
      PROVE  /\ pending'[q] # <<>> => tipLock' = q
             /\ IsPrefix(tip', TipSeenBy(q)')
             /\ Continues(ToSet(pending'[q]), Len(tip'), TipSeenBy(q)')
  <2>1. CASE pending'[q] = <<>>
    <3>1. TipSeenBy(q)' = tip'
      BY <2>1 DEF TipSeenBy
    <3>2. QED
      BY <1>2, <2>1, <3>1, ContinuesEmpty, PrefixReflexive, ToSetEmpty
  <2>2. CASE pending'[q] # <<>>
    <3>1. q # r /\ pending'[q] = pending[q] /\ tipLock = q /\ tipLock' = q
      BY <1>1, <2>2 DEF Commit, ChainInv, PendingInv
    <3>2. pending[r] = <<>>
      BY <3>1 DEF ChainInv, PendingInv
    <3>3. tip' = tip
      BY <1>1, <3>2 DEF TipSeenBy
    <3>4. TipSeenBy(q)' = TipSeenBy(q)
      BY <3>1, <3>3 DEF TipSeenBy
    <3>5. QED
      BY <3>1, <3>3, <3>4 DEF ChainInv, PendingInv
  <2>3. QED
    BY <2>1, <2>2
<1>6. PendingInv'
  BY <1>5 DEF PendingInv
<1>7. QED
  BY <1>3, <1>4, <1>6 DEF ChainInv

LEMMA StepChain == ChainInv /\ [Next]_vars => ChainInv' /\ IsPrefix(tip, tip')
<1> SUFFICES ASSUME ChainInv, [Next]_vars
             PROVE  ChainInv' /\ IsPrefix(tip, tip')
  OBVIOUS
<1>1. TypeInv' /\ tip \in Hash
  BY StepTyping DEF ChainInv, TypeInv, TypeOK
<1>2. ASSUME NEW r \in Requests, PostNew(r) \/ PostReversal(r) \/ DrawSeq(r)
      PROVE  ChainInv' /\ IsPrefix(tip, tip')
  BY <1>1, <1>2, ChainUnchanged, PrefixReflexive
     DEF PostNew, PostReversal, Post, DrawSeq
<1>3. ASSUME NEW r \in Requests, InsertEntry(r)
      PROVE  ChainInv' /\ IsPrefix(tip, tip')
  BY <1>1, <1>3, InsertChain, PrefixReflexive DEF InsertEntry
<1>4. ASSUME NEW r \in Requests,
             InsertRefused(r) \/ CommitRefused(r) \/ Abort(r)
      PROVE  ChainInv' /\ IsPrefix(tip, tip')
  BY <1>1, <1>4, RollbackChain, PrefixReflexive
     DEF InsertRefused, CommitRefused, Abort, Rollback
<1>5. ASSUME NEW r \in Requests, Commit(r)
      PROVE  ChainInv' /\ IsPrefix(tip, tip')
  BY <1>1, <1>5, CommitChain
<1>6. CASE UNCHANGED vars
  BY <1>1, <1>6, ChainUnchanged, PrefixReflexive DEF vars
<1>7. QED
  BY <1>2, <1>3, <1>4, <1>5, <1>6 DEF Next, Step, Terminating

-----------------------------------------------------------------------------
(* The chain *)

\* Rows that continue the chain from its genesis are an unbroken chain.
LEMMA ChainInvSuffices == ChainInv => ChainUnbroken
<1> SUFFICES ASSUME ChainInv PROVE ChainUnbroken
  OBVIOUS
<1>1. /\ tip \in Hash /\ Len(tip) \in Nat
      /\ \A row \in ledger :
            /\ row.previous_hash \in Hash /\ row.row_hash \in Hash
            /\ ContentOf(row) \in Content
  BY LenProperties DEF ChainInv, TypeInv, TypeOK, Row, Content, ContentOf, Hash
<1>2. \A row \in ledger :
         /\ row.row_hash = Digest(row.previous_hash, ContentOf(row))
         /\ Len(row.row_hash) \in 1 .. Len(tip)
         /\ row.row_hash = SubSeq(tip, 1, Len(row.row_hash))
  BY DEF ChainInv, CommittedInv, Continues
<1>3. \A n \in 1 .. Len(tip) : \E row \in ledger : Len(row.row_hash) = n
  BY DEF ChainInv, CommittedInv, Continues
<1>4. \A x, y \in ledger : Len(x.row_hash) = Len(y.row_hash) => x = y
  BY DEF ChainInv, CommittedInv, Continues
\* The hash before a row's is the prefix of the tip one shorter.
<1>5. \A row \in ledger :
         /\ Len(row.previous_hash) \in 0 .. Len(tip) - 1
         /\ Len(row.row_hash) = Len(row.previous_hash) + 1
         /\ row.previous_hash = SubSeq(tip, 1, Len(row.previous_hash))
  <2> TAKE row \in ledger
  <2>1. /\ Len(row.row_hash) = Len(row.previous_hash) + 1
        /\ row.previous_hash = SubSeq(row.row_hash, 1, Len(row.previous_hash))
        /\ Len(row.previous_hash) \in Nat
    BY <1>1, <1>2, DigestExtends, LenProperties DEF Hash
  <2>2. IsPrefix(row.row_hash, tip)
    BY <1>1, <1>2, SubSeqFull DEF IsPrefix, Hash
  <2>3. Len(row.previous_hash) \in 0 .. Len(row.row_hash)
    BY <2>1
  <2>4. SubSeq(tip, 1, Len(row.previous_hash))
           = SubSeq(row.row_hash, 1, Len(row.previous_hash))
    BY <1>1, <2>2, <2>3, PrefixOfPrefix DEF Hash
  <2>5. QED
    BY <1>1, <1>2, <2>1, <2>4
<1>6. LinksHold
  BY <1>2 DEF LinksHold
<1>7. EveryRowHasAPredecessor
  <2> SUFFICES ASSUME NEW row \in ledger
               PROVE  \/ row.previous_hash = Genesis
                      \/ \E before \in ledger :
                            before.row_hash = row.previous_hash
    BY DEF EveryRowHasAPredecessor
  <2>1. CASE Len(row.previous_hash) = 0
    BY <1>1, <2>1, EmptySeq DEF Genesis, Hash
  <2>2. CASE Len(row.previous_hash) # 0
    <3>1. Len(row.previous_hash) \in 1 .. Len(tip)
      BY <1>1, <1>5, <2>2
    <3>2. PICK before \in ledger :
             Len(before.row_hash) = Len(row.previous_hash)
      BY <1>3, <3>1
    <3>3. before.row_hash = row.previous_hash
      BY <1>2, <1>5, <3>2
    <3>4. QED
      BY <3>3
  <2>3. QED
    BY <2>1, <2>2
<1>8. NoFork
  BY <1>4, <1>5 DEF NoFork
<1>9. TipIsAnEnd
  <2>1. \A row \in ledger : row.previous_hash # tip
    BY <1>1, <1>5
  <2>2. CASE ledger = {}
    BY <1>1, <1>3, <2>2, EmptySeq DEF TipIsAnEnd, Genesis, Hash
  <2>3. CASE ledger # {}
    <3>1. Len(tip) \in 1 .. Len(tip)
      BY <1>1, <1>2, <2>3
    <3>2. PICK row \in ledger : Len(row.row_hash) = Len(tip)
      BY <1>3, <3>1
    <3>3. row.row_hash = tip
      BY <1>1, <1>2, <3>2, SubSeqFull DEF Hash
    <3>4. QED
      BY <2>1, <2>3, <3>3 DEF TipIsAnEnd
  <2>4. QED
    BY <2>2, <2>3
<1>10. QED
  BY <1>6, <1>7, <1>8, <1>9 DEF ChainUnbroken

\* However postings interleave, the committed rows are one chain from the
\* genesis hash to the tip, without fork or gap.
THEOREM ChainNeverForks == Spec => []ChainUnbroken
<1>1. QED
  BY InitChain, StepChain, ChainInvSuffices, PTL DEF Spec

\* No step replaces the tip by a hash that forgets a committed row.
THEOREM TipNeverForgets == Spec => TipOnlyExtends
<1>1. ChainInv /\ [Next]_vars => [IsPrefix(tip, tip')]_vars
  BY StepChain
<1>2. QED
  BY <1>1, InitChain, StepChain, PTL DEF Spec, TipOnlyExtends

-----------------------------------------------------------------------------
(* Whole and balanced postings *)

\* The rows of an open posting are the lines inserted so far, as stored.
LinesInv ==
    \A r \in Requests :
        /\ pc[r] = "idle" => pending[r] = <<>>
        /\ Len(pending[r]) <= Len(plan[r])
        /\ \A k \in 1 .. Len(pending[r]) :
              /\ pending[r][k].txn = r
              /\ pending[r][k].line = k
              /\ pending[r][k].entry = Stored(plan[r][k])

BooksInv == TypeInv /\ LinesInv /\ AllOrNothing /\ PostingsBalanced

LEMMA InitBooks == Init => BooksInv
<1> SUFFICES ASSUME Init PROVE LinesInv /\ AllOrNothing /\ PostingsBalanced
  BY InitTyping DEF BooksInv
<1>1. LinesInv
  BY DEF Init, LinesInv
<1>2. AllOrNothing
  BY DEF Init, AllOrNothing, RowsOf
<1>3. PostingsBalanced
  BY DEF Init, PostingsBalanced
<1>4. QED
  BY <1>1, <1>2, <1>3

\* A transaction that is not committed has no rows in the table.
LEMMA NoRowsYet ==
    ASSUME AllOrNothing, NEW r \in Requests, pc[r] # "committed"
    PROVE  RowsOf(r) = {}
  BY DEF AllOrNothing

\* A step that leaves the table alone and commits nothing.
LEMMA BooksUnchanged ==
    ASSUME BooksInv, TypeInv', LinesInv', ledger' = ledger,
           \A r \in Requests :
              /\ pc'[r] = "committed" <=> pc[r] = "committed"
              /\ pc[r] = "committed" => plan'[r] = plan[r]
    PROVE  BooksInv'
<1>1. \A r \in Requests : RowsOf(r)' = RowsOf(r)
  BY DEF RowsOf
<1>2. AllOrNothing'
  BY <1>1 DEF BooksInv, AllOrNothing
<1>3. PostingsBalanced'
  <2>1. \A row \in ledger : row.txn \in Requests
    BY DEF BooksInv, TypeInv, TypeOK, Row
  <2>2. QED
    BY <1>1, <2>1 DEF BooksInv, PostingsBalanced
<1>4. QED
  BY <1>2, <1>3 DEF BooksInv

LEMMA RollbackBooks ==
    ASSUME BooksInv, TypeInv', NEW r \in Requests,
           NEW outcome \in Ended \ {"committed"},
           pc[r] \in {"open", "insert"}, Rollback(r, outcome)
    PROVE  BooksInv'
<1>1. /\ pending'[r] = <<>> /\ pc'[r] = outcome
      /\ \A q \in Requests \ {r} : pending'[q] = pending[q] /\ pc'[q] = pc[q]
      /\ plan' = plan /\ ledger' = ledger
  BY DEF Rollback, BooksInv, TypeInv, TypeOK
<1>2. Len(plan[r]) \in Nat
  BY LenProperties DEF BooksInv, TypeInv, TypeOK
<1>3. LinesInv'
  BY <1>1, <1>2 DEF BooksInv, LinesInv, Ended
<1>4. \A q \in Requests : pc'[q] = "committed" <=> pc[q] = "committed"
  BY <1>1
<1>5. QED
  BY <1>1, <1>3, <1>4, BooksUnchanged

LEMMA InsertBooks ==
    ASSUME BooksInv, TypeInv', NEW r \in Requests, InsertEntry(r)
    PROVE  BooksInv'
<1> DEFINE row == NextRow(r)
           n == Len(pending[r])
<1>1. /\ pending'[r] = Append(pending[r], row) /\ pc'[r] = "open"
      /\ \A q \in Requests \ {r} : pending'[q] = pending[q] /\ pc'[q] = pc[q]
      /\ plan' = plan /\ ledger' = ledger
  BY DEF InsertEntry, BooksInv, TypeInv, TypeOK
<1>2. /\ row.txn = r /\ row.line = n + 1
      /\ row.entry = Stored(plan[r][n + 1])
  BY DEF NextRow
<1>3. /\ n \in Nat /\ Len(plan[r]) \in Nat /\ n < Len(plan[r])
      /\ Len(Append(pending[r], row)) = n + 1
      /\ \A k \in 1 .. n : Append(pending[r], row)[k] = pending[r][k]
      /\ Append(pending[r], row)[n + 1] = row
  <2>1. pending[r] \in Seq(Row) /\ plan[r] \in Seq(Entry) /\ row \in Row
    BY NextRowTyping DEF BooksInv, TypeInv, TypeOK, InsertEntry
  <2>2. QED
    BY <2>1, LenProperties, AppendProperties
       DEF BooksInv, TypeInv, InsertingALine, InsertEntry
<1>4. \A k \in 1 .. n + 1 :
         /\ pending'[r][k].txn = r
         /\ pending'[r][k].line = k
         /\ pending'[r][k].entry = Stored(plan[r][k])
  BY <1>1, <1>2, <1>3 DEF BooksInv, LinesInv
<1>5. LinesInv'
  <2>1. /\ Len(pending'[r]) = n + 1 /\ n + 1 <= Len(plan'[r])
        /\ pc'[r] # "idle" /\ plan' = plan
    BY <1>1, <1>3
  <2>2. ASSUME NEW q \in Requests
        PROVE  /\ pc'[q] = "idle" => pending'[q] = <<>>
               /\ Len(pending'[q]) <= Len(plan'[q])
               /\ \A k \in 1 .. Len(pending'[q]) :
                     /\ pending'[q][k].txn = q
                     /\ pending'[q][k].line = k
                     /\ pending'[q][k].entry = Stored(plan'[q][k])
    <3>1. CASE q = r
      BY <1>4, <2>1, <3>1
    <3>2. CASE q # r
      BY <1>1, <3>2 DEF BooksInv, LinesInv
    <3>3. QED
      BY <3>1, <3>2
  <2>3. QED
    BY <2>2 DEF LinesInv
<1>6. \A q \in Requests : pc'[q] = "committed" <=> pc[q] = "committed"
  BY <1>1 DEF InsertEntry
<1>7. QED
  BY <1>1, <1>5, <1>6, BooksUnchanged

LEMMA CommitBooks ==
    ASSUME BooksInv, TypeInv', NEW r \in Requests, Commit(r)
    PROVE  BooksInv'
<1> DEFINE new == ToSet(pending[r])
<1>1. /\ pending'[r] = <<>> /\ pc'[r] = "committed" /\ pc[r] = "open"
      /\ \A q \in Requests \ {r} : pending'[q] = pending[q] /\ pc'[q] = pc[q]
      /\ plan' = plan /\ ledger' = ledger \union new
  BY DEF Commit, AllInserted, BooksInv, TypeInv, TypeOK
<1>2. /\ DOMAIN plan[r] = 1 .. Len(plan[r])
      /\ DOMAIN pending[r] = 1 .. Len(plan[r])
      /\ Len(pending[r]) = Len(plan[r]) /\ Len(plan[r]) \in Nat
  BY LenProperties DEF BooksInv, TypeInv, TypeOK, Commit, AllInserted
<1>3. \A k \in 1 .. Len(plan[r]) :
         /\ pending[r][k].txn = r
         /\ pending[r][k].line = k
         /\ pending[r][k].entry = Stored(plan[r][k])
  BY <1>2 DEF BooksInv, LinesInv
<1>4. \A row \in new : row.txn = r
  BY <1>2, <1>3 DEF ToSet
<1>5. RowsOf(r)' = new
  BY <1>1, <1>4, NoRowsYet DEF RowsOf, BooksInv
<1>6. \A q \in Requests \ {r} : RowsOf(q)' = RowsOf(q)
  BY <1>1, <1>4 DEF RowsOf
<1>7. LinesInv'
  BY <1>1, <1>2 DEF BooksInv, LinesInv
<1>8. AllOrNothing'
  <2>1. {<<row.line, row.entry>> : row \in new}
           = {<<i, Stored(plan[r][i])>> : i \in DOMAIN plan[r]}
    BY <1>2, <1>3 DEF ToSet
  <2>2. QED
    BY <1>1, <1>5, <1>6, <2>1 DEF BooksInv, AllOrNothing
<1>9. PostingsBalanced'
  <2>1. \A row \in new : Imbalance(new, row.entry.currency) = 0
    BY DEF Commit, DeferredCheck
  <2>2. ASSUME NEW row \in ledger'
        PROVE  Imbalance(RowsOf(row.txn)', row.entry.currency) = 0
    <3>1. CASE row \in new
      BY <1>4, <1>5, <2>1, <3>1
    <3>2. CASE row \notin new
      <4>1. row \in ledger /\ row.txn \in Requests
        BY <1>1, <2>2, <3>2 DEF BooksInv, TypeInv, TypeOK, Row
      <4>2. row.txn # r
        BY <1>1, <4>1, NoRowsYet DEF RowsOf, BooksInv
      <4>3. RowsOf(row.txn)' = RowsOf(row.txn)
        BY <1>6, <4>1, <4>2
      <4>4. Imbalance(RowsOf(row.txn), row.entry.currency) = 0
        BY <4>1 DEF BooksInv, PostingsBalanced
      <4>5. QED
        BY <4>3, <4>4
    <3>3. QED
      BY <3>1, <3>2
  <2>3. QED
    BY <2>2 DEF PostingsBalanced
<1>10. QED
  BY <1>7, <1>8, <1>9 DEF BooksInv

LEMMA StepBooks == BooksInv /\ [Next]_vars => BooksInv'
<1> SUFFICES ASSUME BooksInv, [Next]_vars
             PROVE  BooksInv'
  OBVIOUS
<1>1. TypeInv'
  BY StepTyping DEF BooksInv
<1>2. ASSUME NEW r \in Requests, NEW entries \in Seq(Entry), NEW original,
             Post(r, entries, original)
      PROVE  BooksInv'
  <2>1. /\ pending' = pending /\ ledger' = ledger /\ pc[r] = "idle"
        /\ pc'[r] \in {"open", "rejected"}
        /\ \A q \in Requests \ {r} : plan'[q] = plan[q] /\ pc'[q] = pc[q]
        /\ plan'[r] = entries /\ Len(entries) \in Nat
    BY <1>2, LenProperties DEF Post, BooksInv, TypeInv, TypeOK
  <2>2. LinesInv'
    BY <2>1 DEF BooksInv, LinesInv
  <2>3. QED
    BY <1>1, <2>1, <2>2, BooksUnchanged
<1>3. ASSUME NEW r \in Requests, PostNew(r)
      PROVE  BooksInv'
  BY <1>2, <1>3, PostingsAssumption DEF PostNew
<1>4. ASSUME NEW r \in Requests, PostReversal(r)
      PROVE  BooksInv'
  BY <1>2, <1>4, ReversalTyping DEF PostReversal, BooksInv, TypeInv
<1>5. ASSUME NEW r \in Requests, DrawSeq(r)
      PROVE  BooksInv'
  <2>1. /\ pending' = pending /\ ledger' = ledger /\ plan' = plan
        /\ pc[r] = "open" /\ pc'[r] = "insert"
        /\ \A q \in Requests \ {r} : pc'[q] = pc[q]
    BY <1>5 DEF DrawSeq, BooksInv, TypeInv, TypeOK
  <2>2. LinesInv'
    BY <2>1 DEF BooksInv, LinesInv
  <2>3. QED
    BY <1>1, <2>1, <2>2, BooksUnchanged
<1>6. ASSUME NEW r \in Requests, InsertEntry(r)
      PROVE  BooksInv'
  BY <1>1, <1>6, InsertBooks
<1>7. ASSUME NEW r \in Requests,
             InsertRefused(r) \/ CommitRefused(r) \/ Abort(r)
      PROVE  BooksInv'
  BY <1>1, <1>7, RollbackBooks
     DEF InsertRefused, CommitRefused, AllInserted, Abort, Ended
<1>8. ASSUME NEW r \in Requests, Commit(r)
      PROVE  BooksInv'
  BY <1>1, <1>8, CommitBooks
<1>9. CASE UNCHANGED vars
  <2>1. LinesInv'
    BY <1>9 DEF BooksInv, LinesInv, vars
  <2>2. QED
    BY <1>1, <1>9, <2>1, BooksUnchanged DEF vars
<1>10. QED
  BY <1>3, <1>4, <1>5, <1>6, <1>7, <1>8, <1>9 DEF Next, Step, Terminating

\* Every committed transaction balances in each of its currencies, as it is
\* stored.
THEOREM BooksBalance == Spec => []PostingsBalanced
<1>1. BooksInv => PostingsBalanced
  BY DEF BooksInv
<1> QED BY <1>1, InitBooks, StepBooks, PTL DEF Spec

\* A posting is in the table with all of its lines, or with none: whatever
\* ends its request, and wherever.
THEOREM PostingsWhole == Spec => []AllOrNothing
<1>1. BooksInv => AllOrNothing
  BY DEF BooksInv
<1> QED BY <1>1, InitBooks, StepBooks, PTL DEF Spec

-----------------------------------------------------------------------------
(* What postings are made of *)

\* In a transaction, a line names a row.
LinesDiffer ==
    \A x, y \in ledger : x.txn = y.txn /\ x.line = y.line => x = y

Accepted(r) == pc[r] \notin {"idle", "rejected"}

\* The posting of r has every line of the one of o, flipped, in some order.
Reversed(r, o) ==
    /\ pc[o] = "committed" /\ o # r
    /\ Len(plan[o]) # 0 /\ Len(plan[r]) = Len(plan[o])
    /\ \E order \in SetToSeqs(1 .. Len(plan[o])) :
          \A i \in 1 .. Len(plan[o]) : plan[r][i] = Flip(Stored(plan[o][order[i]]))

\* An accepted posting is a valid one that a caller handed in, or reverses a
\* committed one.
SourceInv ==
    \A r \in Requests :
        Accepted(r) =>
            IF reverses[r] = Nobody
            THEN plan[r] \in Postings /\ ValidEntries(plan[r]) /\ Resolvable(plan[r])
            ELSE Reversed(r, reverses[r])

ReversalInv == BooksInv /\ LinesDiffer /\ SourceInv

-----------------------------------------------------------------------------
\* The rows of a committed transaction are its lines, one each.
LEMMA CommittedRows ==
    ASSUME ReversalInv, NEW r \in Requests, pc[r] = "committed"
    PROVE  /\ Len(plan[r]) \in Nat /\ plan[r] \in Seq(Entry)
           /\ RowsOf(r) \subseteq Row
           /\ \A row \in RowsOf(r) :
                 /\ row.line \in 1 .. Len(plan[r])
                 /\ row.entry = Stored(plan[r][row.line])
           /\ \A i \in 1 .. Len(plan[r]) : \E row \in RowsOf(r) : row.line = i
           /\ \A x, y \in RowsOf(r) : x.line = y.line => x = y
<1>1. /\ DOMAIN plan[r] = 1 .. Len(plan[r]) /\ Len(plan[r]) \in Nat /\ plan[r] \in Seq(Entry)
      /\ RowsOf(r) \subseteq Row
  BY LenProperties DEF ReversalInv, BooksInv, TypeInv, TypeOK, RowsOf
<1>2. {<<row.line, row.entry>> : row \in RowsOf(r)}
         = {<<i, Stored(plan[r][i])>> : i \in 1 .. Len(plan[r])}
  BY <1>1 DEF ReversalInv, BooksInv, AllOrNothing
<1>3. ASSUME NEW row \in RowsOf(r)
      PROVE  /\ row.line \in 1 .. Len(plan[r])
             /\ row.entry = Stored(plan[r][row.line])
  <2>1. <<row.line, row.entry>> \in {<<i, Stored(plan[r][i])>> : i \in 1 .. Len(plan[r])}
    BY <1>2
  <2> QED BY <2>1
<1>4. ASSUME NEW i \in 1 .. Len(plan[r])
      PROVE  \E row \in RowsOf(r) : row.line = i
  <2>1. <<i, Stored(plan[r][i])>> \in {<<row.line, row.entry>> : row \in RowsOf(r)}
    BY <1>2
  <2> QED BY <2>1
<1>5. \A x, y \in RowsOf(r) : x.line = y.line => x = y
  BY DEF ReversalInv, LinesDiffer, RowsOf
<1> QED BY <1>1, <1>3, <1>4, <1>5

LEMMA CommittedCount ==
    ASSUME ReversalInv, NEW r \in Requests, pc[r] = "committed"
    PROVE  /\ IsFiniteSet(RowsOf(r))
           /\ Cardinality(RowsOf(r)) = Len(plan[r])
<1> DEFINE n == Len(plan[r])
           f == [row \in RowsOf(r) |-> row.line]
<1>1. f \in [RowsOf(r) -> 1 .. n] /\ n \in Nat
  BY CommittedRows
<1>2. \A x, y \in RowsOf(r) : f[x] = f[y] => x = y
  BY CommittedRows
<1>3. \A i \in 1 .. n : \E row \in RowsOf(r) : f[row] = i
  BY CommittedRows
<1>4. f \in Injection(RowsOf(r), 1 .. n) /\ f \in Surjection(RowsOf(r), 1 .. n)
  BY <1>1, <1>2, <1>3 DEF Injection, Surjection, IsInjective
<1>5. IsFiniteSet(1 .. n) /\ Cardinality(1 .. n) = n
  BY <1>1, FS_Interval
<1> QED BY <1>4, <1>5, FS_Injection

LEMMA BookOfCommitted ==
    ASSUME ReversalInv, NEW r \in Requests, pc[r] = "committed"
    PROVE  Book(r) = [i \in 1 .. Len(plan[r]) |-> Stored(plan[r][i])]
<1>1. ASSUME NEW i \in 1 .. Len(plan[r])
      PROVE  (CHOOSE row \in RowsOf(r) : row.line = i).entry = Stored(plan[r][i])
  <2> DEFINE row == CHOOSE x \in RowsOf(r) : x.line = i
  <2>1. row \in RowsOf(r) /\ row.line = i
    BY CommittedRows
  <2> HIDE DEF row
  <2>2. row.entry = Stored(plan[r][i])
    BY <2>1, CommittedRows
  <2> QED BY <2>2 DEF row
<1> QED BY <1>1, CommittedCount DEF Book

LEMMA BookOfOthers ==
    ASSUME ReversalInv, NEW r \in Requests, pc[r] # "committed"
    PROVE  Book(r) = <<>>
<1>1. Cardinality(RowsOf(r)) = 0
  BY NoRowsYet, FS_EmptySet DEF ReversalInv, BooksInv
<1>2. 1 .. Cardinality(RowsOf(r)) = {}
  BY <1>1
<1> QED BY <1>2 DEF Book

-----------------------------------------------------------------------------
(* The invariant *)

LEMMA InitReversal == Init => ReversalInv
<1> SUFFICES ASSUME Init PROVE LinesDiffer /\ SourceInv
  BY InitBooks DEF ReversalInv
<1> QED BY DEF Init, LinesDiffer, SourceInv, Accepted

\* A step that hands in no posting.
LEMMA SourceKept ==
    ASSUME SourceInv, TypeInv, plan' = plan, reverses' = reverses,
           \A q \in Requests : /\ Accepted(q)' => Accepted(q)
                               /\ pc[q] = "committed" => pc'[q] = "committed"
    PROVE  SourceInv'
<1> SUFFICES ASSUME NEW r \in Requests, Accepted(r)'
             PROVE  IF reverses[r] = Nobody
                    THEN plan[r] \in Postings /\ ValidEntries(plan[r]) /\ Resolvable(plan[r])
                    ELSE Reversed(r, reverses[r])'
  BY DEF SourceInv
<1>1. reverses[r] # Nobody => reverses[r] \in Requests
  BY DEF TypeInv, TypeOK
<1> QED BY <1>1 DEF SourceInv, Reversed

\* What a reversal reads are the lines of its original, in some order.
LEMMA ReadRows ==
    ASSUME ReversalInv, NEW original \in Requests, RowsOf(original) # {},
           NEW rows \in SetToSeqs(RowsOf(original))
    PROVE  LET n == Len(plan[original])
               entries == [i \in DOMAIN rows |-> Flip(rows[i].entry)]
           IN  /\ pc[original] = "committed" /\ n \in Nat \ {0}
               /\ Len(entries) = n
               /\ \E order \in SetToSeqs(1 .. n) :
                     \A i \in 1 .. n : entries[i] = Flip(Stored(plan[original][order[i]]))
<1> DEFINE n == Len(plan[original])
           order == [i \in 1 .. n |-> rows[i].line]
<1>1. pc[original] = "committed"
  BY NoRowsYet DEF ReversalInv, BooksInv
<1>2. /\ n \in Nat /\ Cardinality(RowsOf(original)) = n
      /\ \A row \in RowsOf(original) :
            row.line \in 1 .. n /\ row.entry = Stored(plan[original][row.line])
      /\ \A x, y \in RowsOf(original) : x.line = y.line => x = y
  BY <1>1, CommittedRows, CommittedCount
<1>3. n # 0
  BY <1>2
<1>4. rows \in [1 .. n -> RowsOf(original)] /\ \A i, j \in 1 .. n : i # j => rows[i] # rows[j]
  BY <1>2 DEF SetToSeqs
<1>5. order \in [1 .. n -> 1 .. n] /\ \A i, j \in 1 .. n : i # j => order[i] # order[j]
  BY <1>2, <1>4
<1>6. Cardinality(1 .. n) = n
  <2>1. n \in Int
    BY <1>2
  <2> HIDE DEF n
  <2>2. Cardinality(1 .. n) = IF 1 > n THEN 0 ELSE n - 1 + 1
    BY <2>1, FS_Interval
  <2> QED BY <1>2, <2>2
<1>7. order \in SetToSeqs(1 .. n)
  BY <1>5, <1>6 DEF SetToSeqs
<1>8. \A i \in 1 .. n : Flip(rows[i].entry) = Flip(Stored(plan[original][order[i]]))
  BY <1>2, <1>4
<1>9. Len([i \in 1 .. n |-> Flip(rows[i].entry)]) = n
  BY <1>2
<1>10. DOMAIN rows = 1 .. n
  BY <1>4
<1> HIDE DEF order
<1> QED BY <1>1, <1>2, <1>3, <1>7, <1>8, <1>9, <1>10

LEMMA PostSource ==
    ASSUME ReversalInv, NEW r \in Requests, NEW entries \in Seq(Entry), NEW original,
           Post(r, entries, original),
           original = Nobody => entries \in Postings,
           original # Nobody =>
               /\ original \in Requests /\ pc[original] = "committed"
               /\ Len(plan[original]) # 0 /\ Len(entries) = Len(plan[original])
               /\ \E order \in SetToSeqs(1 .. Len(plan[original])) :
                     \A i \in 1 .. Len(plan[original]) :
                        entries[i] = Flip(Stored(plan[original][order[i]]))
    PROVE  SourceInv'
<1>1. /\ pc[r] = "idle" /\ plan'[r] = entries /\ reverses'[r] = original
      /\ Accepted(r)' => ValidEntries(entries) /\ Resolvable(entries)
      /\ \A q \in Requests \ {r} :
            plan'[q] = plan[q] /\ reverses'[q] = reverses[q] /\ pc'[q] = pc[q]
  BY DEF Post, ReversalInv, BooksInv, TypeInv, TypeOK, Accepted
<1> SUFFICES ASSUME NEW q \in Requests, Accepted(q)'
             PROVE  IF reverses'[q] = Nobody
                    THEN plan'[q] \in Postings /\ ValidEntries(plan'[q]) /\ Resolvable(plan'[q])
                    ELSE Reversed(q, reverses[q])'
  BY DEF SourceInv
<1>2. CASE q = r
  BY <1>1, <1>2 DEF Reversed
<1>3. CASE q # r
  <2>1. Accepted(q)
    BY <1>1, <1>3 DEF Accepted
  <2>2. CASE reverses[q] = Nobody
    BY <1>1, <1>3, <2>1, <2>2 DEF ReversalInv, SourceInv
  <2>3. CASE reverses[q] # Nobody
    <3>1. Reversed(q, reverses[q]) /\ reverses[q] \in Requests
      BY <2>1, <2>3 DEF ReversalInv, SourceInv, BooksInv, TypeInv, TypeOK
    <3>2. reverses[q] # r
      BY <1>1, <3>1 DEF Reversed
    <3> QED BY <1>1, <1>3, <2>3, <3>1, <3>2 DEF Reversed
  <2> QED BY <2>2, <2>3
<1> QED BY <1>2, <1>3

LEMMA StepReversal == ReversalInv /\ [Next]_vars => ReversalInv'
<1> SUFFICES ASSUME ReversalInv, [Next]_vars PROVE LinesDiffer' /\ SourceInv'
  BY StepBooks DEF ReversalInv
<1>0. TypeInv /\ SourceInv /\ LinesDiffer
  BY DEF ReversalInv, BooksInv
<1>1. ASSUME NEW r \in Requests, PostNew(r) PROVE LinesDiffer' /\ SourceInv'
  <2>1. PICK entries \in Postings : Post(r, entries, Nobody)
    BY <1>1 DEF PostNew
  <2>2. SourceInv'
    BY <2>1, PostSource, PostingsAssumption
  <2> QED BY <1>0, <2>1, <2>2 DEF Post, LinesDiffer
<1>2. ASSUME NEW r \in Requests, PostReversal(r) PROVE LinesDiffer' /\ SourceInv'
  <2>1. PICK original \in Requests :
           /\ RowsOf(original) # {}
           /\ \E rows \in SetToSeqs(RowsOf(original)) :
                 Post(r, [i \in DOMAIN rows |-> Flip(rows[i].entry)], original)
    BY <1>2 DEF PostReversal
  <2>2. PICK rows \in SetToSeqs(RowsOf(original)) :
           Post(r, [i \in DOMAIN rows |-> Flip(rows[i].entry)], original)
    BY <2>1
  <2> DEFINE entries == [i \in DOMAIN rows |-> Flip(rows[i].entry)]
  <2>3. entries \in Seq(Entry)
    BY <1>0, ReversalTyping DEF TypeInv
  <2>4. /\ pc[original] = "committed" /\ Len(plan[original]) # 0
        /\ Len(entries) = Len(plan[original])
        /\ \E order \in SetToSeqs(1 .. Len(plan[original])) :
              \A i \in 1 .. Len(plan[original]) :
                 entries[i] = Flip(Stored(plan[original][order[i]]))
    BY <2>1, ReadRows
  <2>5. Post(r, entries, original)
    BY <2>2
  <2> HIDE DEF entries
  <2>6. SourceInv'
    BY <2>3, <2>4, <2>5, PostSource, NobodyAssumption
  <2> QED BY <1>0, <2>5, <2>6 DEF Post, LinesDiffer
<1>3. ASSUME NEW r \in Requests, DrawSeq(r) \/ InsertEntry(r)
      PROVE  LinesDiffer' /\ SourceInv'
  <2>1. /\ ledger' = ledger /\ plan' = plan /\ reverses' = reverses
        /\ pc[r] \in {"open", "insert"} /\ pc'[r] \in {"open", "insert"}
        /\ \A q \in Requests \ {r} : pc'[q] = pc[q]
    BY <1>0, <1>3 DEF DrawSeq, InsertEntry, TypeInv, TypeOK
  <2> QED BY <1>0, <2>1, SourceKept DEF LinesDiffer, Accepted
<1>4. ASSUME NEW r \in Requests, InsertRefused(r) \/ CommitRefused(r) \/ Abort(r)
      PROVE  LinesDiffer' /\ SourceInv'
  <2>1. /\ ledger' = ledger /\ plan' = plan /\ reverses' = reverses
        /\ pc[r] \in {"open", "insert"}
        /\ \A q \in Requests \ {r} : pc'[q] = pc[q]
    BY <1>0, <1>4
       DEF InsertRefused, CommitRefused, AllInserted, Abort, Rollback, TypeInv, TypeOK
  <2> QED BY <1>0, <2>1, SourceKept DEF LinesDiffer, Accepted
<1>5. ASSUME NEW r \in Requests, Commit(r) PROVE LinesDiffer' /\ SourceInv'
  <2>1. /\ ledger' = ledger \union ToSet(pending[r]) /\ plan' = plan /\ reverses' = reverses
        /\ pc[r] = "open" /\ \A q \in Requests \ {r} : pc'[q] = pc[q]
    BY <1>0, <1>5 DEF Commit, AllInserted, TypeInv, TypeOK
  <2>2. \A x \in ToSet(pending[r]) :
           x.txn = r /\ \A y \in ToSet(pending[r]) : x.line = y.line => x = y
    <3>1. DOMAIN pending[r] = 1 .. Len(pending[r])
      BY <1>0, LenProperties DEF TypeInv, TypeOK
    <3> QED BY <3>1 DEF ReversalInv, BooksInv, LinesInv, ToSet
  <2>3. \A x \in ledger : x.txn # r
    BY <2>1, NoRowsYet DEF ReversalInv, BooksInv, RowsOf
  <2>4. LinesDiffer'
    BY <1>0, <2>1, <2>2, <2>3 DEF LinesDiffer
  <2> QED BY <1>0, <2>1, <2>4, SourceKept DEF Accepted
<1>6. CASE UNCHANGED vars
  BY <1>0, <1>6, SourceKept DEF LinesDiffer, Accepted, vars
<1> QED BY <1>1, <1>2, <1>3, <1>4, <1>5, <1>6 DEF Next, Step, Terminating

-----------------------------------------------------------------------------
(* Reversals *)

\* An order of n lines leaves none out.
LEMMA OrderIsOnto ==
    ASSUME NEW n \in Nat, NEW order \in SetToSeqs(1 .. n)
    PROVE  /\ order \in [1 .. n -> 1 .. n]
           /\ \A i, j \in 1 .. n : i # j => order[i] # order[j]
           /\ \A j \in 1 .. n : \E i \in 1 .. n : order[i] = j
<1>1. IsFiniteSet(1 .. n) /\ Cardinality(1 .. n) = n
  BY FS_Interval
<1>2. /\ order \in [1 .. n -> 1 .. n]
      /\ \A i, j \in 1 .. n : i # j => order[i] # order[j]
  BY <1>1 DEF SetToSeqs
<1>3. order \in Injection(1 .. n, 1 .. n)
  BY <1>2 DEF Injection, IsInjective
<1>4. order \in Surjection(1 .. n, 1 .. n)
  BY <1>1, <1>3, FS_Injection
<1> QED BY <1>2, <1>4 DEF Surjection

\* The rows of a reversal on one account, in one currency, are the opposites
\* of the original's there.
LEMMA ReversalSuffices == ReversalInv => ReversalNetsToZero
<1> SUFFICES ASSUME ReversalInv, NEW r \in Requests, pc[r] = "committed",
                    reverses[r] # Nobody, NEW account \in AccountCodes,
                    NEW currency \in CurrencyCodes
             PROVE  Imbalance({row \in RowsOf(r) \union RowsOf(reverses[r]) :
                                  row.entry.account = account}, currency) = 0
  BY DEF ReversalNetsToZero
<1> DEFINE o == reverses[r]
           n == Len(plan[o])
           Here(row) == row.entry.account = account /\ row.entry.currency = currency
           A == {row \in RowsOf(r) : Here(row)}
           B == {row \in RowsOf(o) : Here(row)}
<1>1. o \in Requests /\ Reversed(r, o)
  BY DEF ReversalInv, BooksInv, TypeInv, TypeOK, SourceInv, Accepted
<1> HIDE DEF o
<1>2. pc[o] = "committed" /\ o # r /\ Len(plan[r]) = n
  BY <1>1 DEF Reversed
<1>3. PICK order \in SetToSeqs(1 .. n) :
         \A i \in 1 .. n : plan[r][i] = Flip(Stored(plan[o][order[i]]))
  BY <1>1 DEF Reversed
<1>4. /\ n \in Nat /\ RowsOf(r) \subseteq Row /\ RowsOf(o) \subseteq Row
      /\ \A row \in RowsOf(r) : row.line \in 1 .. n /\ row.entry = Stored(plan[r][row.line])
      /\ \A row \in RowsOf(o) : row.line \in 1 .. n /\ row.entry = Stored(plan[o][row.line])
      /\ \A i \in 1 .. n : /\ \E row \in RowsOf(r) : row.line = i
                           /\ \E row \in RowsOf(o) : row.line = i
      /\ \A x, y \in RowsOf(r) : x.line = y.line => x = y
      /\ \A x, y \in RowsOf(o) : x.line = y.line => x = y
  BY <1>1, <1>2, CommittedRows
<1>5. /\ order \in [1 .. n -> 1 .. n]
      /\ \A i, j \in 1 .. n : i # j => order[i] # order[j]
      /\ \A j \in 1 .. n : \E i \in 1 .. n : order[i] = j
  BY <1>4, OrderIsOnto
<1> HIDE DEF n
<1>6. ASSUME NEW x \in RowsOf(r), NEW y \in RowsOf(o), y.line = order[x.line]
      PROVE  /\ Signed(y.entry) = -1 * Signed(x.entry)
             /\ Here(x) <=> Here(y)
  <2>1. x.entry = Stored(Flip(y.entry))
    <3>1. /\ x.line \in 1 .. n /\ x.entry = Stored(plan[r][x.line])
          /\ y.entry = Stored(plan[o][y.line])
      BY <1>4
    <3>2. plan[r][x.line] = Flip(Stored(plan[o][order[x.line]]))
      BY <1>3, <3>1
    <3> QED BY <1>6, <3>1, <3>2
  <2>2. y.entry \in StoredEntry
    BY <1>4 DEF Row
  <2>3. Signed(x.entry) = -1 * Signed(y.entry) /\ Signed(y.entry) \in Int
    BY <2>1, <2>2, StoredFlip, SignedTyping
  <2>4. x.entry.account = y.entry.account /\ x.entry.currency = y.entry.currency
    BY <2>1, <2>2, StoredFlip
  <2>5. Here(x) <=> Here(y)
    BY <2>4
  <2> QED BY <2>3, <2>5
<1> DEFINE f == [x \in A |-> CHOOSE y \in RowsOf(o) : y.line = order[x.line]]
<1>7. ASSUME NEW x \in A
      PROVE  f[x] \in RowsOf(o) /\ f[x].line = order[x.line]
  <2>1. order[x.line] \in 1 .. n
    BY <1>4, <1>5
  <2>2. \E y \in RowsOf(o) : y.line = order[x.line]
    BY <1>4, <2>1
  <2> QED BY <2>2
<1>8. f \in [A -> B] /\ \A x \in A : Signed(f[x].entry) = -1 * Signed(x.entry)
  BY <1>6, <1>7
<1>9. ASSUME NEW x \in A, NEW y \in A, f[x] = f[y]
      PROVE  x = y
  <2>1. x \in RowsOf(r) /\ y \in RowsOf(r) /\ order[x.line] = order[y.line]
    BY <1>7, <1>9
  <2>2. x.line \in 1 .. n /\ y.line \in 1 .. n
    BY <1>4, <2>1
  <2>3. x.line = y.line
    BY <1>5, <2>1, <2>2
  <2> QED BY <1>4, <2>1, <2>3
<1>10. ASSUME NEW y \in B
       PROVE  \E x \in A : f[x] = y
  <2>1. PICK i \in 1 .. n : order[i] = y.line
    BY <1>4, <1>5
  <2>2. PICK x \in RowsOf(r) : x.line = i
    BY <1>4
  <2>3. x \in A
    BY <1>6, <2>1, <2>2
  <2>4. f[x] = y
    BY <1>4, <1>7, <2>1, <2>2, <2>3
  <2> QED BY <2>3, <2>4
<1> HIDE DEF f
<1>11. f \in Bijection(A, B)
  BY <1>8, <1>9, <1>10 DEF Bijection, Injection, Surjection, IsInjective
<1>12. Summable(A) /\ Summable(B) /\ Summable(A \union B) /\ A \intersect B = {}
  <2>1. IsFiniteSet(RowsOf(r)) /\ IsFiniteSet(RowsOf(o))
    BY <1>1, <1>2, CommittedCount
  <2>2. A \subseteq Row /\ B \subseteq Row /\ IsFiniteSet(A) /\ IsFiniteSet(B)
    BY <1>4, <2>1, FS_Subset
  <2>3. \A x \in A \union B : Signed(x.entry) \in Int
    BY <2>2, SignedTyping DEF Row
  <2>4. A \intersect B = {}
    <3>1. \A row \in A : row.txn = r
      BY DEF RowsOf
    <3>2. \A row \in B : row.txn = o
      BY DEF RowsOf
    <3> QED BY <1>2, <3>1, <3>2
  <2> HIDE DEF A, B
  <2> QED BY <2>2, <2>3, <2>4, FS_Union DEF Summable
<1>13. Sum(B) = -1 * Sum(A) /\ Sum(A) \in Int /\ Sum(A \union B) = Sum(A) + Sum(B)
  <2> HIDE DEF A, B
  <2>0. Sum(A) \in Int
    BY <1>12, SumType
  <2>1. Sum(B) = -1 * Sum(A)
    <3> DEFINE sign == -1
    <3>1. sign \in {1, -1} /\ \A x \in A : Signed(f[x].entry) = sign * Signed(x.entry)
      BY <1>8, <1>12 DEF Summable
    <3> HIDE DEF sign
    <3>2. Sum(B) = sign * Sum(A)
      BY <1>11, <1>12, <3>1, SumAlong
    <3> QED BY <2>0, <3>2 DEF sign
  <2>3. Sum(A \union B) = Sum(A) + Sum(B)
    BY <1>12, SumUnion
  <2> QED BY <2>0, <2>1, <2>3
<1>14. Sum(A \union B) = 0
  BY <1>13
<1>15. {x \in {row \in RowsOf(r) \union RowsOf(o) : row.entry.account = account} :
           x.entry.currency = currency} = A \union B
  OBVIOUS
<1> QED BY <1>14, <1>15, ImbalanceIsSum DEF o

\* A committed reversal and its original leave every account, in every
\* currency, where it was, whatever the rows and the order they were read in.
THEOREM ReversalsNetToZero == Spec => []ReversalNetsToZero
<1> QED BY InitReversal, StepReversal, ReversalSuffices, PTL DEF Spec

-----------------------------------------------------------------------------
(* The atomic ledger *)

\* LedgerChain and AtomicLedger mean the same by their operators on entries.
LEMMA SameEntries ==
    ASSUME NEW entry
    PROVE  /\ Ledger!Stored(entry) = Stored(entry)
           /\ Ledger!Flip(entry) = Flip(entry)
           /\ Ledger!Signed(entry) = Signed(entry)
BY DEF Ledger!Stored, Stored, Ledger!Round, Round, Ledger!Flip, Flip, Ledger!Signed, Signed

LEMMA SameSums ==
    ASSUME NEW lines, NEW currency
    PROVE  Ledger!Imbalance(lines, currency) = Imbalance(lines, currency)
BY DEF Ledger!Imbalance, Imbalance, Ledger!Signed, Signed, MapThenSumSet,
       Ledger!MapThenSumSet, MapThenFoldSet, Ledger!MapThenFoldSet

LEMMA SameChecks ==
    ASSUME NEW entries
    PROVE  /\ Ledger!LinesOf(entries) = LinesOf(entries)
           /\ Ledger!ValidEntries(entries) <=> ValidEntries(entries)
           /\ Ledger!Resolvable(entries) <=> Resolvable(entries)
<1>1. Ledger!LinesOf(entries) = LinesOf(entries)
  BY DEF Ledger!LinesOf, LinesOf
<1> QED BY <1>1, SameSums DEF Ledger!ValidEntries, ValidEntries, Ledger!Resolvable, Resolvable

LEMMA SameOrders ==
    ASSUME NEW S
    PROVE  Ledger!SetToSeqs(S) = SetToSeqs(S)
<1>1. Ledger!Cardinality(S) = Cardinality(S)
  BY DEF Ledger!Cardinality, Cardinality
<1> QED BY <1>1 DEF Ledger!SetToSeqs, SetToSeqs

\* Each request's book is the posting it committed, as stored.
BooksAre ==
    \A r \in Requests :
        Book(r) = IF pc[r] = "committed"
                  THEN [i \in 1 .. Len(plan[r]) |-> Stored(plan[r][i])]
                  ELSE <<>>

LEMMA BooksKnown == ReversalInv => BooksAre
BY BookOfCommitted, BookOfOthers DEF BooksAre

\* What a commit enters balances in every currency.
LEMMA BookBalances ==
    ASSUME ReversalInv, NEW r \in Requests, AllInserted(r), DeferredCheck(r),
           NEW currency
    PROVE  Imbalance(LinesOf([i \in 1 .. Len(plan[r]) |-> Stored(plan[r][i])]), currency) = 0
<1> DEFINE n == Len(plan[r])
           book == [i \in 1 .. n |-> Stored(plan[r][i])]
           P == {row \in ToSet(pending[r]) : row.entry.currency = currency}
           L == {x \in LinesOf(book) : x.entry.currency = currency}
           f == [x \in L |-> pending[r][x.line]]
<1>1. /\ pending[r] \in Seq(Row) /\ n \in Nat /\ DOMAIN pending[r] = 1 .. n
      /\ \A k \in 1 .. n : /\ pending[r][k].line = k
                           /\ pending[r][k].entry = Stored(plan[r][k])
  BY LenProperties DEF ReversalInv, BooksInv, TypeInv, TypeOK, LinesInv, AllInserted
<1>2. \A k \in 1 .. n : book[k] = Stored(plan[r][k]) /\ pending[r][k] \in Row
  BY <1>1, ElementOfSeq
<1> HIDE DEF n
<1>3. LinesOf(book) = {[line |-> i, entry |-> book[i]] : i \in 1 .. n}
  BY DEF LinesOf
<1> HIDE DEF book
<1>4. \A x \in L : x.line \in 1 .. n /\ x = [line |-> x.line, entry |-> book[x.line]]
  BY <1>3
<1>5. ToSet(pending[r]) = {pending[r][k] : k \in 1 .. n}
  BY <1>1 DEF ToSet
<1>6. ASSUME NEW x \in L PROVE f[x] \in P /\ f[x].entry = x.entry /\ f[x].line = x.line
  BY <1>1, <1>2, <1>4, <1>5
<1>7. ASSUME NEW x \in L, NEW y \in L, f[x] = f[y] PROVE x = y
  <2>1. x.line = y.line
    BY <1>6, <1>7
  <2> QED BY <1>4, <2>1
<1>8. ASSUME NEW row \in P PROVE \E x \in L : f[x] = row
  <2>1. PICK k \in 1 .. n : row = pending[r][k]
    BY <1>5
  <2>2. [line |-> k, entry |-> book[k]] \in L
    BY <1>1, <1>2, <1>3, <2>1
  <2> QED BY <2>1, <2>2
<1>9. f \in [L -> P] /\ \A x \in L : Signed(f[x].entry) = Signed(x.entry)
  BY <1>6
<1>10. IsFiniteSet(P) /\ P \subseteq Row /\ \A row \in P : Signed(row.entry) \in Int
  <2>1. ToSet(pending[r]) \subseteq Row /\ IsFiniteSet(ToSet(pending[r]))
    BY <1>1, ToSetFinite
  <2> QED BY <2>1, FS_Subset, SignedTyping DEF Row
<1> HIDE DEF f
<1>11. f \in Bijection(L, P)
  BY <1>7, <1>8, <1>9 DEF Bijection, Injection, Surjection, IsInjective
<1>12. Summable(P) /\ Summable(L)
  <2>1. f \in Injection(L, P)
    BY <1>11 DEF Bijection
  <2>2. IsFiniteSet(L)
    BY <1>10, <2>1, FS_Injection
  <2>3. \A x \in L : Signed(x.entry) \in Int
    BY <1>9, <1>10
  <2> QED BY <1>10, <2>2, <2>3 DEF Summable
<1>13. Sum(P) = 0
  <2>1. CASE P = {}
    BY <2>1, SumEmpty
  <2>2. CASE P # {}
    <3>1. PICK row \in ToSet(pending[r]) : row.entry.currency = currency
      BY <2>2
    <3>2. Imbalance(ToSet(pending[r]), currency) = 0
      BY <3>1 DEF DeferredCheck
    <3> QED BY <3>2, ImbalanceIsSum
  <2> QED BY <2>1, <2>2
<1>14. Sum(P) = 1 * Sum(L) /\ Sum(L) \in Int
  <2> DEFINE sign == 1
  <2>1. sign \in {1, -1} /\ \A x \in L : Signed(f[x].entry) = sign * Signed(x.entry)
    BY <1>9, <1>12 DEF Summable
  <2> HIDE DEF sign, P, L
  <2>2. Sum(P) = sign * Sum(L) /\ Sum(L) \in Int
    BY <1>11, <1>12, <2>1, SumAlong, SumType
  <2> QED BY <2>2 DEF sign
<1>15. Sum(L) = 0
  BY <1>13, <1>14
<1> QED BY <1>15, ImbalanceIsSum DEF book, n

\* A step that leaves the table alone leaves every book alone.
LEMMA BooksStay ==
    ASSUME ledger' = ledger
    PROVE  [r \in Requests |-> Book(r)]' = [r \in Requests |-> Book(r)]
BY DEF Book, RowsOf

LEMMA CommitImplements ==
    ASSUME ReversalInv, BooksAre', NEW r \in Requests, Commit(r)
    PROVE  [Ledger!Next]_([q \in Requests |-> Book(q)])
<1> DEFINE books == [q \in Requests |-> Book(q)]
           n == Len(plan[r])
           book == [i \in 1 .. n |-> Stored(plan[r][i])]
<1>1. /\ plan' = plan /\ pc'[r] = "committed" /\ pc[r] = "open"
      /\ \A q \in Requests \ {r} : pc'[q] = pc[q]
      /\ AllInserted(r) /\ DeferredCheck(r)
  BY DEF Commit, AllInserted, ReversalInv, BooksInv, TypeInv, TypeOK, Ended
<1>2. BooksAre
  BY BooksKnown
<1>3. books[r] = <<>> /\ books' = [books EXCEPT ![r] = book]
  <2>1. books[r] = <<>> /\ Book(r)' = book
    BY <1>1, <1>2 DEF BooksAre
  <2>2. ASSUME NEW q \in Requests \ {r} PROVE Book(q)' = Book(q)
    BY <1>1, <1>2 DEF BooksAre
  <2> QED BY <2>1, <2>2
<1>4. /\ DOMAIN plan[r] = 1 .. n /\ n \in Nat
  BY LenProperties DEF ReversalInv, BooksInv, TypeInv, TypeOK
<1>5. Accepted(r) /\ reverses[r] \in Requests \union {Nobody}
  BY <1>1 DEF Accepted, ReversalInv, BooksInv, TypeInv, TypeOK
<1>6. CASE reverses[r] = Nobody
  <2>1. plan[r] \in Postings /\ ValidEntries(plan[r]) /\ Resolvable(plan[r])
    BY <1>5, <1>6 DEF ReversalInv, SourceInv
  <2>2. Ledger!Enter(r, plan[r])
    BY <1>3, <1>4, SameEntries DEF Ledger!Enter
  <2>3. \A currency \in Currencies : Imbalance(LinesOf(book), currency) = 0
    BY <1>1, BookBalances
  <2>4. \A currency \in Currencies : Ledger!Imbalance(Ledger!LinesOf(books'[r]), currency) = 0
    <3>1. books'[r] = book
      BY <1>3
    <3> HIDE DEF books, book
    <3> QED BY <2>3, <3>1, SameSums, SameChecks
  <2>5. Ledger!PostNew(r)
    BY <2>1, <2>2, <2>4, SameChecks DEF Ledger!PostNew
  <2> QED BY <2>5 DEF Ledger!Next
<1>7. CASE reverses[r] # Nobody
  <2> DEFINE o == reverses[r]
  <2>1. o \in Requests /\ Reversed(r, o)
    BY <1>5, <1>7 DEF ReversalInv, SourceInv
  <2> HIDE DEF o
  <2>2. /\ pc[o] = "committed" /\ n # 0 /\ Len(plan[o]) = n
        /\ \E order \in SetToSeqs(1 .. n) :
              \A i \in 1 .. n : plan[r][i] = Flip(Stored(plan[o][order[i]]))
    BY <2>1 DEF Reversed
  <2>3. PICK order \in SetToSeqs(1 .. n) :
           \A i \in 1 .. n : plan[r][i] = Flip(Stored(plan[o][order[i]]))
    BY <2>2
  <2>4. books[o] = [i \in 1 .. n |-> Stored(plan[o][i])] /\ DOMAIN books[o] = 1 .. n
    BY <1>2, <2>1, <2>2 DEF BooksAre
  <2>5. books[o] # <<>>
    BY <1>4, <2>2, <2>4
  <2>6. order \in [1 .. n -> 1 .. n]
    BY <1>4, OrderIsOnto
  <2> DEFINE entries == [i \in DOMAIN order |-> Ledger!Flip(books[o][order[i]])]
  <2>7. DOMAIN entries = 1 .. n /\ \A i \in 1 .. n : entries[i] = plan[r][i]
    BY <2>3, <2>4, <2>6, SameEntries
  <2>8. Ledger!Enter(r, entries)
    <3> HIDE DEF entries
    <3>1. [i \in DOMAIN entries |-> Ledger!Stored(entries[i])] = book
      BY <2>7, SameEntries
    <3> QED BY <1>3, <3>1 DEF Ledger!Enter
  <2>9. Ledger!PostReversal(r)
    BY <2>1, <2>4, <2>5, <2>8, SameOrders DEF Ledger!PostReversal
  <2> QED BY <2>9 DEF Ledger!Next
<1> QED BY <1>6, <1>7

\* The detailed ledger implements the atomic one: whatever the interleaving
\* of inserts, locks, rollbacks and deaths, a step enters one balanced posting
\* or one whole reversal, or changes no book.
THEOREM LedgerImplemented == Spec => ImplementsAtomicLedger
<1> DEFINE books == [r \in Requests |-> Book(r)]
<1>1. Init => Ledger!Init
  <2> SUFFICES ASSUME Init PROVE Ledger!Init
    OBVIOUS
  <2>1. BooksAre
    BY InitReversal, BooksKnown
  <2> QED BY <2>1 DEF Init, BooksAre, Ledger!Init
<1>2. ReversalInv /\ BooksAre' /\ [Next]_vars => [Ledger!Next]_books
  <2> SUFFICES ASSUME ReversalInv, BooksAre', [Next]_vars PROVE [Ledger!Next]_books
    OBVIOUS
  <2>1. CASE \E r \in Requests : Commit(r)
    BY <2>1, CommitImplements
  <2>2. CASE ~ \E r \in Requests : Commit(r)
    <3>1. ledger' = ledger
      BY <2>2 DEF Next, Step, Terminating, vars, PostNew, PostReversal, Post, DrawSeq,
                  InsertEntry, InsertRefused, CommitRefused, Abort, Rollback
    <3> QED BY <3>1, BooksStay
  <2> QED BY <2>1, <2>2
<1> QED BY <1>1, <1>2, InitReversal, StepReversal, BooksKnown, PTL
        DEF Spec, ImplementsAtomicLedger, Ledger!Spec
=============================================================================
