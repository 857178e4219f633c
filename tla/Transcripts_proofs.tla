-------------------------- MODULE Transcripts_proofs --------------------------
(***************************************************************************)
(* What the pre-pass of a transcript guarantees, for any texts and bounds. *)
(* The chain of superseding segments ends at a segment that is relevant    *)
(* and superseded by none, so the survivor of a merged segment is never    *)
(* merged itself; every step of the run keeps a merged segment waiting for *)
(* its survivor, or gives it the survivor's block, until the placeholders  *)
(* that are left are settled one by one.                                   *)
(***************************************************************************)
EXTENDS Transcripts, FiniteSetTheorems, WellFoundedInduction, TLAPS

Distinct(q) == \A i, j \in DOMAIN q : q[i] = q[j] => i = j

--------------------------------------------------------------------------------
(* Sequences and the sets of their entries.                                *)

(* The entries of an empty sequence.                                       *)
LEMMA NoEntries == ToSet(<<>>) = {} /\ Distinct(<<>>)
  BY DEF ToSet, Distinct

(* Appending adds one entry.                                               *)
LEMMA AppendEntries ==
    ASSUME NEW S, NEW q \in Seq(S), NEW x \in S
    PROVE  /\ Append(q, x) \in Seq(S)
           /\ ToSet(Append(q, x)) = ToSet(q) \cup {x}
           /\ Distinct(q) /\ x \notin ToSet(q) => Distinct(Append(q, x))
<1>1. /\ Append(q, x) \in Seq(S) /\ Len(Append(q, x)) = Len(q) + 1 /\ DOMAIN Append(q, x) = 1..Len(q) + 1
      /\ \A i \in 1..Len(q) : Append(q, x)[i] = q[i]
      /\ Append(q, x)[Len(q) + 1] = x /\ DOMAIN q = 1..Len(q) /\ Len(q) \in Nat
  OBVIOUS
<1>2. ToSet(Append(q, x)) = ToSet(q) \cup {x}
  <2> DEFINE p == Append(q, x)
  <2>1. DOMAIN p = DOMAIN q \cup {Len(q) + 1} /\ p[Len(q) + 1] = x /\ \A i \in DOMAIN q : p[i] = q[i]
    BY <1>1
  <2> HIDE DEF p
  <2> QED  BY <2>1 DEF ToSet
<1>3. Distinct(q) /\ x \notin ToSet(q) => Distinct(Append(q, x))
  BY <1>1 DEF ToSet, Distinct
<1> QED  BY <1>1, <1>2, <1>3

(* The head and the tail have the entries of the sequence between them.    *)
LEMMA TailEntries ==
    ASSUME NEW S, NEW q \in Seq(S), q # <<>>
    PROVE  /\ Head(q) \in S /\ Tail(q) \in Seq(S)
           /\ ToSet(q) = {Head(q)} \cup ToSet(Tail(q))
           /\ Distinct(q) => Distinct(Tail(q)) /\ Head(q) \notin ToSet(Tail(q))
<1>1. /\ Len(q) \in Nat \ {0} /\ DOMAIN q = 1..Len(q) /\ Head(q) = q[1] /\ q[1] \in S
      /\ Tail(q) \in Seq(S) /\ Len(Tail(q)) = Len(q) - 1 /\ DOMAIN Tail(q) = 1..Len(q) - 1
      /\ \A i \in 1..Len(q) - 1 : Tail(q)[i] = q[i + 1]
  OBVIOUS
<1>2. ToSet(q) \subseteq {Head(q)} \cup ToSet(Tail(q))
  <2> SUFFICES ASSUME NEW i \in DOMAIN q, i # 1 PROVE q[i] \in ToSet(Tail(q))
    BY <1>1 DEF ToSet
  <2>1. i - 1 \in DOMAIN Tail(q) /\ Tail(q)[i - 1] = q[i]
    BY <1>1
  <2> QED  BY <2>1 DEF ToSet
<1>3. ToSet(Tail(q)) \subseteq ToSet(q)
  <2> SUFFICES ASSUME NEW i \in DOMAIN Tail(q) PROVE Tail(q)[i] \in ToSet(q)
    BY DEF ToSet
  <2>1. i + 1 \in DOMAIN q /\ Tail(q)[i] = q[i + 1]
    BY <1>1
  <2> QED  BY <2>1 DEF ToSet
<1>4. Head(q) \in ToSet(q)
  BY <1>1 DEF ToSet
<1>5. ASSUME Distinct(q) PROVE Distinct(Tail(q)) /\ Head(q) \notin ToSet(Tail(q))
  BY <1>1, <1>5 DEF Distinct, ToSet
<1> QED  BY <1>1, <1>2, <1>3, <1>4, <1>5

(* What an ordering of a set of rows is.                                   *)
LEMMA OrderOf ==
    ASSUME NEW S \in SUBSET ((1..MaxVersions) \X (1..Segments)), MaxVersions \in Nat, Segments \in Nat,
           NEW q \in InOrder(S)
    PROVE  q \in Seq(S) /\ ToSet(q) = S /\ Distinct(q)
<1>1. IsFiniteSet((1..MaxVersions) \X (1..Segments))
  <2>1. IsFiniteSet(1..MaxVersions) /\ IsFiniteSet(1..Segments)
    BY FS_Interval
  <2> QED  BY <2>1, FS_Product
<1>2. Cardinality(S) \in Nat
  BY <1>1, FS_Subset, FS_CardinalityType
<1>3. q \in [1..Cardinality(S) -> S] /\ ToSet(q) = S /\ \A i, j \in DOMAIN q : i < j => Earlier(q[i], q[j])
  BY DEF InOrder
<1>4. q \in Seq(S)
  BY <1>2, <1>3
<1>5. \A i, j \in 1..Cardinality(S) : i < j => q[i] # q[j]
  <2> SUFFICES ASSUME NEW i \in 1..Cardinality(S), NEW j \in 1..Cardinality(S), i < j, q[i] = q[j] PROVE FALSE
    OBVIOUS
  <2>1. Earlier(q[i], q[i]) /\ q[i] \in S
    BY <1>3
  <2>2. q[i][1] \in Nat /\ q[i][2] \in Nat
    BY <2>1
  <2> QED  BY <2>1, <2>2 DEF Earlier
<1>6. Distinct(q)
  BY <1>2, <1>3, <1>5 DEF Distinct
<1> QED  BY <1>3, <1>4, <1>6

(* Targets of different kinds differ, and one names one row.               *)
LEMMA TargetFacts ==
    /\ \A b, c : Block(b) = Block(c) => b = c
    /\ \A b, c : Placeholder(b) = Placeholder(c) => b = c
    /\ \A b, c : Block(b) # Placeholder(c)
    /\ \A b : Block(b) # NoTarget /\ Placeholder(b) # NoTarget
    /\ NoTarget[1] = "none" /\ \A b : Block(b)[1] = "block" /\ Placeholder(b)[1] = "pending" /\ Placeholder(b)[2] = b
<1>1. NoTarget[1] = "none" /\ \A b : Block(b)[1] = "block" /\ Placeholder(b)[1] = "pending"
  BY DEF NoTarget, Block, Placeholder
<1>2. \A b : Block(b)[2] = b /\ Placeholder(b)[2] = b
  BY DEF Block, Placeholder
<1>3. "none" # "block" /\ "none" # "pending" /\ "pending" # "block"
  OBVIOUS
<1> QED  BY <1>1, <1>2, <1>3

--------------------------------------------------------------------------------
(* The chain of superseding segments.                                      *)

ProperPart(k, m) == k \subseteq m /\ k # m

(* A set of finite sets has a member that no other member is a part of.    *)
LEMMA Minimal ==
    ASSUME NEW U, NEW T, T \subseteq SUBSET U, T # {}, \A S \in T : IsFiniteSet(S)
    PROVE  \E m \in T : \A k \in T : ~ProperPart(k, m)
<1>1. T \subseteq FiniteSubsetsOf(U)
  BY DEF FiniteSubsetsOf
<1>2. PICK m \in T : \A k \in T : ~(<<k, m>> \in StrictSubsetOrdering(U))
  BY <1>1, FS_StrictSubsetOrderingWellFounded, WFMin
<1> QED  BY <1>2 DEF StrictSubsetOrdering, ProperPart

(* A set of numbers has a least member.                                    *)
LEMMA Least ==
    ASSUME NEW T \in SUBSET Nat, T # {}
    PROVE  \E m \in T : \A k \in T : ~(k < m)
<1> DEFINE Below == {0..n : n \in T}
<1>1. \A S \in Below : IsFiniteSet(S)
  BY FS_Interval
<1>2. PICK t \in T : TRUE
  OBVIOUS
<1>3. \A n \in T : 0..n \in SUBSET Nat /\ 0..n \in Below
  OBVIOUS
<1>4. \A S \in Below : \E n \in T : S = 0..n
  OBVIOUS
<1> HIDE DEF Below
<1>5. Below \subseteq SUBSET Nat
  BY <1>3, <1>4
<1>6. Below # {}
  BY <1>2, <1>3
<1>7. PICK m \in Below : \A k \in Below : ~ProperPart(k, m)
  BY <1>1, <1>5, <1>6, Minimal
<1>8. PICK n \in T : m = 0..n
  BY <1>4
<1>9. ASSUME NEW k \in T, k < n PROVE FALSE
  <2>1. 0..k \subseteq 0..n /\ n \notin 0..k /\ n \in 0..n
    BY <1>9
  <2>2. 0..k \in Below
    BY <1>3
  <2> QED  BY <2>1, <2>2, <1>7, <1>8 DEF ProperPart
<1> QED  BY <1>9

(* A chain that leads forwards from every link ends: the function that     *)
(* Survivor defines by recursion is there.                                 *)
Ends(by, last) == last = [j \in DOMAIN by |-> IF by[j] = 0 THEN j ELSE last[by[j]]]

LEMMA ChainEnds ==
    ASSUME NEW n \in Nat, NEW by \in [1..n -> 0..n], \A i \in 1..n : by[i] = 0 \/ by[i] > i
    PROVE  \E last : Ends(by, last)
<1> DEFINE From(k, last) == \A j \in 1..n : j >= k => last[j] = IF by[j] = 0 THEN j ELSE last[by[j]]
           Reached == {k \in 1..n + 1 : \E last \in [1..n -> 1..n] : From(k, last)}
<1>0. \A k \in 1..n + 1 : k \in Reached <=> \E last \in [1..n -> 1..n] : From(k, last)
  BY DEF Reached
<1>1. n + 1 \in Reached
  <2>1. [j \in 1..n |-> j] \in [1..n -> 1..n] /\ From(n + 1, [j \in 1..n |-> j])
    OBVIOUS
  <2> HIDE DEF From, Reached
  <2>2. n + 1 \in 1..n + 1
    OBVIOUS
  <2> QED  BY <2>1, <2>2, <1>0
<1>2. PICK m \in Reached : \A k \in Reached : ~(k < m)
  <2>1. Reached \in SUBSET Nat
    BY DEF Reached
  <2> HIDE DEF Reached
  <2>2. Reached # {}
    BY <1>1
  <2> QED  BY <2>1, <2>2, Least
<1>3. m \in 1..n + 1 /\ \E last \in [1..n -> 1..n] : From(m, last)
  OBVIOUS
<1>3a. PICK last \in [1..n -> 1..n] : From(m, last)
  BY <1>3
<1>4. m = 1
  <2> SUFFICES ASSUME m # 1 PROVE FALSE
    OBVIOUS
  <2>1. PICK k \in 1..n : k = m - 1
    BY <1>3
  <2> DEFINE next == [last EXCEPT ![k] = IF by[k] = 0 THEN k ELSE last[by[k]]]
  <2>2. next \in [1..n -> 1..n]
    <3>1. by[k] # 0 => by[k] \in 1..n
      OBVIOUS
    <3> QED  BY <3>1
  <2>3. ASSUME NEW j \in 1..n, j >= k PROVE next[j] = IF by[j] = 0 THEN j ELSE next[by[j]]
    <3>1. by[j] # 0 => by[j] \in 1..n /\ by[j] # k
      <4>1. PICK e \in 0..n : e = by[j]
        OBVIOUS
      <4>2. e = 0 \/ e > j
        BY <4>1
      <4>3. e # 0 => e \in 1..n /\ e # k
        BY <4>2, <2>3, <2>1
      <4> QED  BY <4>1, <4>3
    <3>2. CASE j = k
      BY <3>1, <3>2
    <3>3. CASE j # k
      <4>1. j >= m
        BY <2>1, <2>3, <3>3
      <4>2. next[j] = last[j] /\ (by[j] # 0 => next[by[j]] = last[by[j]])
        BY <3>1, <3>3
      <4> QED  BY <4>1, <4>2, <1>3a
    <3> QED  BY <3>2, <3>3
  <2>4. From(k, next)
    BY <2>3
  <2> HIDE DEF From, Reached, next
  <2>5. k \in 1..n + 1 /\ k < m
    BY <2>1, <1>3
  <2>6. k \in Reached
    BY <2>2, <2>4, <2>5, <1>0
  <2> QED  BY <2>5, <2>6, <1>2
<1>5. last = [j \in 1..n |-> IF by[j] = 0 THEN j ELSE last[by[j]]]
  BY <1>3a, <1>4
<1> QED  BY <1>5 DEF Ends

(* What ends a chain is later than where the chain begins, superseded by   *)
(* none, and relevant: it is not merged, and a survivor of the pre-pass.   *)
LEMMA SurvivorEndsChain ==
    ASSUME NEW n \in Nat, NEW by \in [1..n -> 0..n], NEW relevant \in [1..n -> BOOLEAN],
           _validate_supersession(n, relevant, by),
           NEW i \in 1..n, by[i] # 0
    PROVE  /\ Survivor(by, i) \in 1..n /\ Survivor(by, i) > i
           /\ by[Survivor(by, i)] = 0 /\ relevant[Survivor(by, i)]
<1> DEFINE f == CHOOSE last : Ends(by, last)
           Good(j) == f[j] \in 1..n /\ f[j] > j /\ by[f[j]] = 0 /\ relevant[f[j]]
           Bad == {k \in 0..n : \E j \in 1..n : k = n - j /\ by[j] # 0 /\ ~Good(j)}
<1>1. \A j \in 1..n : by[j] = 0 \/ (by[j] > j /\ relevant[by[j]])
  BY DEF _validate_supersession
<1>2. Ends(by, f)
  BY <1>1, ChainEnds
<1>3. \A j \in 1..n : f[j] = IF by[j] = 0 THEN j ELSE f[by[j]]
  BY <1>2 DEF Ends
<1>4. Survivor(by, i) = f[i]
  BY DEF Survivor, Ends
<1> HIDE DEF f
<1>5. Bad = {}
  <2> SUFFICES ASSUME Bad # {} PROVE FALSE
    OBVIOUS
  <2>0. Bad \in SUBSET Nat
    OBVIOUS
  <2>1. PICK m \in Bad : \A k \in Bad : ~(k < m)
    <3> HIDE DEF Bad
    <3> QED  BY <2>0, Least
  <2>2. PICK j \in 1..n : m = n - j /\ by[j] # 0 /\ ~Good(j)
    OBVIOUS
  <2>3. PICK b \in 1..n : b = by[j] /\ b > j /\ relevant[b] /\ f[j] = f[b]
    <3> HIDE DEF Good, Bad
    <3>1. by[j] \in 1..n
      BY <2>2
    <3> QED  BY <3>1, <2>2, <1>1, <1>3
  <2>4. by[b] # 0
    BY <2>2, <2>3, <1>3
  <2>5. ~Good(b)
    BY <2>2, <2>3, <2>4
  <2> HIDE DEF Good
  <2>6. n - b \in 0..n /\ n - b < m
    BY <2>2, <2>3
  <2>7. n - b \in Bad
    BY <2>4, <2>5, <2>6
  <2> QED  BY <2>1, <2>6, <2>7
<1>6. n - i \in 0..n
  OBVIOUS
<1>7. Good(i)
  BY <1>5, <1>6
<1> QED  BY <1>4, <1>7

--------------------------------------------------------------------------------
(* The inductive invariant.                                                *)

Targets == {NoTarget} \cup {Block(r) : r \in Rows} \cup {Placeholder(r) : r \in Rows}
Current == RowsOf(Version)
Waits(r) == \E s \in Rows : rows[r].of = Placeholder(s)
HasReview(r) == \E v \in reviews : r \in v.chunks

TextType ==
    /\ text \in Seq(Seq(Texts)) /\ Version \in 1..MaxVersions
    /\ \A v \in 1..Version : Len(text[v]) \in 0..Segments

PrepassType ==
    /\ run = [at |-> "prepass", work |-> run.work, c |-> run.c, next |-> run.next, survivors |-> run.survivors]
    /\ run.work \in Seq(Rows) /\ run.survivors \in Seq(Rows)
    /\ run.c \in validate_c6_response(Len(run.work)) /\ run.next \in 1..Len(run.work) + 1

Batches == [at : {"segment", "settle"}, work : Seq(Rows)]
Placements == [at : {"place"}, work : Seq(Rows), left : Seq(Rows), step : {"judge", "resolve", "record", "conflict"}]
Settlements == [at : {"settling"}, todo : Seq(Rows \X Rows)]

RunType == run = NoRun \/ run \in Batches \/ PrepassType \/ run \in Placements \/ run \in Settlements

TypeInv ==
    /\ TextType /\ RunType
    /\ rows \in [Rows -> Row]
    /\ links \in SUBSET (Rows \X Rows)
    /\ reviews \in SUBSET [candidate : Rows, existing : Rows, chunks : SUBSET Rows]
    /\ merged \in Seq(Rows \X Rows) /\ kills \in Nat

(* Only duplicates have a target: a block that is there, or a row.         *)
TargetsKnown ==
    /\ \A r \in There :
        /\ rows[r].is = "duplicate" =>
              (\E b \in Blocks : rows[r].of = Block(b)) \/ (\E s \in There : rows[r].of = Placeholder(s))
        /\ rows[r].is # "duplicate" => rows[r].of = NoTarget
        /\ rows[r].is \in {"pending", "failed"} => rows[r].attempts < MaxAttempts
    /\ \A v \in reviews : v.existing \in Blocks

(* The worklist is made of rows of the current version, each once.         *)
WorkInv ==
    /\ run.at \in {"segment", "prepass", "place"} => Distinct(run.work) /\ ToSet(run.work) \subseteq Current
    /\ run.at = "segment" => merged = <<>> /\ \A r \in ToSet(run.work) : rows[r].is = "pending"

(* What the pre-pass has not come to yet, and what it left alone, is       *)
(* pending; it has merged what it came to, into ends of chains.            *)
PrepassInv == run.at = "prepass" =>
    /\ \A j \in 1..Len(run.work) :
          run.next <= j \/ (run.c.by[j] = 0 /\ run.c.relevant[j]) => rows[run.work[j]].is = "pending"
    /\ \A m \in ToSet(merged) : \E i, e \in 1..Len(run.work) :
          /\ i < run.next /\ run.c.by[i] # 0
          /\ run.c.by[e] = 0 /\ run.c.relevant[e]
          /\ m = <<run.work[i], run.work[e]>>
    /\ \A r \in ToSet(run.survivors) : \E j \in 1..Len(run.work) :
          j < run.next /\ run.c.by[j] = 0 /\ run.c.relevant[j] /\ r = run.work[j]
    /\ Distinct(run.survivors)

(* The survivors that are left to place are pending and were not merged.   *)
PlaceInv == run.at = "place" =>
    /\ Distinct(run.left)
    /\ \A r \in ToSet(run.left) :
          rows[r].is = "pending" /\ r \in Current /\ \A m \in ToSet(merged) : m[1] # r
    /\ run.step # "judge" => run.left # <<>>
    /\ run.step \in {"resolve", "record"} => <<Head(run.left), Head(run.left)>> \in links
    /\ run.step = "conflict" => HasReview(Head(run.left))

(* Until placeholders are settled, a merged row waits for its survivor or  *)
(* is a duplicate of its block, and a survivor waits for nobody.           *)
MergedInv == run.at \in {"prepass", "place", "settle"} =>
    \A m \in ToSet(merged) :
        /\ m[1] \in Current /\ m[2] \in Current
        /\ rows[m[1]].is = "duplicate" /\ ~Waits(m[2])
        /\ rows[m[1]].of = Placeholder(m[2]) \/ (rows[m[1]].of = Block(m[2]) /\ <<m[2], m[2]>> \in links)

Shared(r, s) ==
    /\ ~Waits(r)
    /\ \/ rows[r].is = rows[s].is
       \/ rows[r].is = "duplicate" /\ \E b \in Blocks : rows[r].of = Block(b) /\ (b \in Held(s) \/ rows[s].of = Block(b))

(* While they are settled, a merged row shares the fate of its survivor or *)
(* is still on the list, and the list changes no survivor.                 *)
SettleInv == run.at = "settling" =>
    /\ \A p \in ToSet(run.todo) : p[1] \in There /\ p[2] \in There
    /\ \A m \in ToSet(merged) :
        /\ m[1] \in Current /\ m[2] \in Current /\ ~Waits(m[2])
        /\ Shared(m[1], m[2]) \/ (rows[m[1]].of = Placeholder(m[2]) /\ m \in ToSet(run.todo))
        /\ \A p \in ToSet(run.todo) : p[1] # m[2] /\ (p[1] = m[1] => p = m)

Listed(r) == run.at = "settling" /\ \E p \in ToSet(run.todo) : p[2] = r

(* A conflict that is not a copy, or that a row waits for, has a review.   *)
Wanted(r) ==
    \/ \A p \in There : p[1] < r[1] => Says(p) # Says(r)
    \/ \E x \in There : rows[x].of = Placeholder(r)
    \/ Listed(r)
ConflictInv == \A r \in There : rows[r].is = "conflicted_pending" /\ Wanted(r) => HasReview(r)

(* Without a kill, who waits is a row that the last pre-pass merged.       *)
KeptInv == kills = 0 =>
    /\ \A r \in Current : rows[r].is # "superseded"
    /\ \A r \in There, s \in Rows : rows[r].of = Placeholder(s) => <<r, s>> \in ToSet(merged)
    /\ run.at \in {"idle", "segment"} => \A r \in There : ~Waits(r)
    /\ run.at = "settling" => ToSet(run.todo) \subseteq ToSet(merged)

TranscriptInv ==
    /\ TypeInv /\ TargetsKnown /\ WorkInv /\ PrepassInv /\ PlaceInv
    /\ MergedInv /\ SettleInv /\ ConflictInv /\ KeptInv

--------------------------------------------------------------------------------
(* What the operators of the model depend on.                              *)

(* Rows of the current version are rows of a version.                      *)
LEMMA CurrentThere ==
    ASSUME TextType
    PROVE  Current \subseteq There /\ There \subseteq Rows
<1>1. There \subseteq Rows
  <2> SUFFICES ASSUME NEW v \in 1..Version, NEW i \in 1..Len(text[v]) PROVE <<v, i>> \in Rows
    BY DEF There, RowsOf
  <2>1. v \in 1..MaxVersions
    BY TranscriptAssumption DEF TextType, Version
  <2>2. i \in 1..Segments
    BY TranscriptAssumption DEF TextType
  <2> QED  BY <2>1, <2>2 DEF Rows
<1>2. Version \in 1..Version
  BY DEF TextType
<1>3. Current \subseteq There
  BY <1>2 DEF There, Current
<1> QED  BY <1>1, <1>3

(* What depends on the text only.                                          *)
LEMMA SameText ==
    ASSUME UNCHANGED text
    PROVE  /\ There' = There /\ Current' = Current /\ (\A r : Says(r)' = Says(r))
           /\ TextType' <=> TextType
<1>1. Version' = Version /\ \A v : RowsOf(v)' = RowsOf(v)
  BY DEF Version, RowsOf
<1> QED  BY <1>1 DEF There, Current, Says, TextType, RowsOf, Version

(* What depends on the links only.                                         *)
LEMMA SameLinks ==
    ASSUME UNCHANGED links
    PROVE  Blocks' = Blocks /\ \A r : Held(r)' = Held(r)
  BY DEF Blocks, Held

(* A linked block is there, and held by the row it is linked to.           *)
LEMMA LinkedBlocks ==
    /\ \A b, r : <<b, r>> \in links => b \in Blocks /\ b \in Held(r)
    /\ \A r : Held(r) \subseteq Blocks
<1>1. ASSUME NEW b, NEW r, <<b, r>> \in links PROVE b \in Blocks /\ b \in Held(r)
  <2>1. <<b, r>>[1] = b /\ <<b, r>>[2] = r
    OBVIOUS
  <2> QED  BY <1>1, <2>1 DEF Blocks, Held
<1>2. \A r : Held(r) \subseteq Blocks
  BY DEF Blocks, Held
<1> QED  BY <1>1, <1>2

(* What depends on the rows only.                                          *)
LEMMA SameRows ==
    ASSUME UNCHANGED rows
    PROVE  \A r : Waits(r)' <=> Waits(r)
  BY DEF Waits

(* The rows that change when the rows of a set are updated.                *)
LEMMA RowsUpdated ==
    ASSUME rows \in [Rows -> Row], NEW S, NEW is \in Dispositions, NEW of \in Targets, NEW intra \in BOOLEAN,
           rows' = Updated(S, is, of, intra)
    PROVE  /\ rows' \in [Rows -> Row]
           /\ \A r \in Rows \ S : rows'[r] = rows[r]
           /\ \A r \in Rows : r \in S => /\ rows'[r].is = is /\ rows'[r].of = of
                                         /\ rows'[r].attempts = rows[r].attempts /\ rows'[r].intra = intra
<1>1. \A r \in Rows : rows'[r] = IF r \in S THEN [rows[r] EXCEPT !.is = is, !.of = of, !.intra = intra] ELSE rows[r]
  BY DEF Updated
<1>2. ASSUME NEW r \in Rows, r \in S
      PROVE  /\ rows'[r] \in Row /\ rows'[r].is = is /\ rows'[r].of = of
             /\ rows'[r].attempts = rows[r].attempts /\ rows'[r].intra = intra
  <2>1. rows[r] \in Row
    OBVIOUS
  <2>2. rows'[r] = [rows[r] EXCEPT !.is = is, !.of = of, !.intra = intra]
    BY <1>1, <1>2
  <2> QED  BY <2>1, <2>2 DEF Row, Targets
<1>3. rows' = [r \in Rows |-> rows'[r]]
  BY DEF Updated
<1>4. \A r \in Rows : rows'[r] \in Row
  BY <1>1, <1>2
<1> QED  BY <1>1, <1>2, <1>3, <1>4

(* One row changes, to a disposition and a target.                         *)
Becomes(r, is, of) ==
    /\ rows' \in [Rows -> Row]
    /\ \A x \in Rows \ {r} : rows'[x] = rows[x]
    /\ rows'[r].is = is /\ rows'[r].of = of /\ rows'[r].attempts = rows[r].attempts

(* One row that is updated.                                                *)
LEMMA RowUpdated ==
    ASSUME rows \in [Rows -> Row], NEW r \in Rows, NEW is, NEW of, NEW intra,
           rows' = Updated({r}, is, of, intra), is \in Dispositions, of \in Targets, intra \in BOOLEAN
    PROVE  Becomes(r, is, of)
<1>1. \A x \in Rows : rows'[x] = IF x \in {r} THEN [rows[x] EXCEPT !.is = is, !.of = of, !.intra = intra] ELSE rows[x]
  BY DEF Updated
<1>2. \A x \in Rows \ {r} : rows'[x] = rows[x]
  BY <1>1
<1>3. rows'[r] = [rows[r] EXCEPT !.is = is, !.of = of, !.intra = intra]
  BY <1>1
<1>4. rows[r] \in Row
  OBVIOUS
<1>5. rows'[r] \in Row /\ rows'[r].is = is /\ rows'[r].of = of /\ rows'[r].attempts = rows[r].attempts
  BY <1>3, <1>4 DEF Row, Targets
<1>6. rows' = [x \in Rows |-> rows'[x]]
  BY DEF Updated
<1>7. \A x \in Rows : rows'[x] \in Row
  BY <1>2, <1>5
<1> QED  BY <1>2, <1>5, <1>6, <1>7 DEF Becomes

(* A failed attempt counts, and is the last one or leaves one.             *)
LEMMA RowsFailed ==
    ASSUME rows \in [Rows -> Row], NEW S, S \subseteq Rows, \A r \in S : rows[r].attempts < MaxAttempts,
           rows' = mark_failed(S)
    PROVE  /\ rows' \in [Rows -> Row]
           /\ \A r \in Rows \ S : rows'[r] = rows[r]
           /\ \A r \in S : /\ rows'[r].is \in {"failed", "failed_final"} /\ rows'[r].of = NoTarget
                           /\ rows'[r].is = "failed" => rows'[r].attempts < MaxAttempts
<1>1. \A r \in Rows \ S : rows'[r] = rows[r]
  BY DEF mark_failed
<1>2. ASSUME NEW r \in S
      PROVE  /\ rows'[r] \in Row /\ rows'[r].is \in {"failed", "failed_final"} /\ rows'[r].of = NoTarget
             /\ rows'[r].is = "failed" => rows'[r].attempts < MaxAttempts
  <2>1. rows[r] \in Row /\ rows[r].attempts < MaxAttempts
    OBVIOUS
  <2>2. PICK n \in 0..MaxAttempts : n = rows[r].attempts
    BY <2>1 DEF Row
  <2>3. n + 1 \in 0..MaxAttempts
    BY <2>1, <2>2, TranscriptAssumption
  <2>4. PICK failed \in {"failed", "failed_final"} : failed = IF n + 1 >= MaxAttempts THEN "failed_final" ELSE "failed"
    OBVIOUS
  <2>5. rows'[r] = [rows[r] EXCEPT !.is = failed, !.of = NoTarget, !.attempts = n + 1, !.intra = FALSE]
    BY <2>2, <2>4 DEF mark_failed
  <2>6. failed \in Dispositions
    BY DEF Dispositions
  <2>7. rows'[r] \in Row /\ rows'[r].is = failed /\ rows'[r].of = NoTarget /\ rows'[r].attempts = n + 1
    BY <2>1, <2>3, <2>5, <2>6 DEF Row
  <2>8. failed = "failed" => n + 1 < MaxAttempts
    BY <2>4, TranscriptAssumption
  <2> QED  BY <2>7, <2>8
<1>3. rows' = [r \in Rows |-> rows'[r]]
  BY DEF mark_failed
<1>4. \A r \in Rows : rows'[r] \in Row
  BY <1>1, <1>2
<1> QED  BY <1>1, <1>2, <1>3, <1>4

(* A text has a bounded number of segments.                                *)
LEMMA BoundedText ==
    ASSUME NEW n \in Nat, NEW t \in SeqOf(Texts, n)
    PROVE  t \in Seq(Texts) /\ Len(t) \in 0..n
<1>1. PICK m \in 0..n : t \in [1..m -> Texts]
  BY DEF SeqOf
<1> QED  BY <1>1

(* What is known of the targets depends on the ledger only.                *)
LEMMA SameLedger ==
    ASSUME TargetsKnown, UNCHANGED <<text, rows, links, reviews>>
    PROVE  TargetsKnown'
  BY SameText, SameLinks DEF TargetsKnown

(* What is known of the targets after one row has changed.                 *)
LEMMA OneTarget ==
    ASSUME TargetsKnown, UNCHANGED <<text, links>>, NEW r \in There,
           \A x \in There \ {r} : rows'[x] = rows[x],
           rows'[r].is = "duplicate" =>
              (\E b \in Blocks : rows'[r].of = Block(b)) \/ (\E s \in There : rows'[r].of = Placeholder(s)),
           rows'[r].is # "duplicate" => rows'[r].of = NoTarget,
           rows'[r].is \in {"pending", "failed"} => rows'[r].attempts < MaxAttempts,
           \A v \in reviews' : v.existing \in Blocks
    PROVE  TargetsKnown'
<1>1. There' = There /\ Blocks' = Blocks
  BY SameText, SameLinks
<1>2. ASSUME NEW x \in There
      PROVE  /\ rows'[x].is = "duplicate" =>
                  (\E b \in Blocks : rows'[x].of = Block(b)) \/ (\E s \in There : rows'[x].of = Placeholder(s))
             /\ rows'[x].is # "duplicate" => rows'[x].of = NoTarget
             /\ rows'[x].is \in {"pending", "failed"} => rows'[x].attempts < MaxAttempts
  <2>1. CASE x = r
    BY <2>1
  <2>2. CASE x # r
    BY <2>2 DEF TargetsKnown
  <2> QED  BY <2>1, <2>2
<1> QED  BY <1>1, <1>2 DEF TargetsKnown

(* Conflicts that nobody else waits for have their reviews.                *)
LEMMA SameConflicts ==
    ASSUME ConflictInv, UNCHANGED <<text, rows, reviews>>, \A r \in There : Listed(r)' => Wanted(r)
    PROVE  ConflictInv'
<1>1. There' = There /\ \A r : Says(r)' = Says(r)
  BY SameText
<1>2. \A r : HasReview(r)' <=> HasReview(r)
  BY DEF HasReview
<1>3. \A r \in There : Wanted(r)' => Wanted(r)
  BY <1>1 DEF Wanted
<1> QED  BY <1>1, <1>2, <1>3 DEF ConflictInv

--------------------------------------------------------------------------------
(* The initial states, and the steps of a run that leave the rows alone.   *)

(* One version of the transcript, of which nothing is processed.           *)
LEMMA TranscriptInit == Init => TranscriptInv
<1> SUFFICES ASSUME Init PROVE TranscriptInv
  OBVIOUS
<1>1. PICK t \in SeqOf(Texts, Segments) : t # <<>> /\ text = <<t>>
  BY DEF Init
<1>2. t \in Seq(Texts) /\ Len(t) \in 0..Segments
  BY BoundedText, TranscriptAssumption
<1>3. TextType
  BY <1>1, <1>2, TranscriptAssumption DEF TextType, Version
<1>4. There \subseteq Rows /\ Current \subseteq There
  BY <1>3, CurrentThere
<1>5. Fresh \in Row
  BY TranscriptAssumption DEF Fresh, Row, Dispositions
<1>6. \A r \in Rows : rows[r] = Fresh
  BY DEF Init
<1>7. TypeInv
  BY <1>3, <1>5 DEF Init, TypeInv, RunType
<1>8. Fresh.is = "pending" /\ Fresh.of = NoTarget /\ Fresh.attempts = 0
  BY DEF Fresh
<1>9. TargetsKnown
  BY <1>4, <1>6, <1>8, TranscriptAssumption DEF TargetsKnown, Init
<1>10. run.at = "idle"
  BY DEF Init, NoRun
<1>11. WorkInv /\ PrepassInv /\ PlaceInv /\ MergedInv /\ SettleInv
  BY <1>10 DEF WorkInv, PrepassInv, PlaceInv, MergedInv, SettleInv
<1>12. ConflictInv
  BY <1>4, <1>6, <1>8 DEF ConflictInv
<1>13. KeptInv
  BY <1>4, <1>6, <1>8, <1>10, TargetFacts DEF KeptInv, Waits
<1> QED  BY <1>7, <1>9, <1>11, <1>12, <1>13 DEF TranscriptInv

(* A run that ends leaves no placeholder of its pre-pass.                  *)
LEMMA FinishRunStep ==
    ASSUME TranscriptInv, FinishRun
    PROVE  TranscriptInv'
<1> USE DEF TranscriptInv
<1>1. run' = NoRun /\ run'.at = "idle" /\ UNCHANGED <<text, rows, links, reviews, merged, kills>>
  BY DEF FinishRun, NoRun
<1>2. run.at = "settling" /\ ToSet(run.todo) = {}
  BY NoEntries DEF FinishRun, At
<1>3. TypeInv'
  BY <1>1, SameText DEF TypeInv, RunType
<1>4. TargetsKnown'
  BY <1>1, SameLedger
<1>5. WorkInv' /\ PrepassInv' /\ PlaceInv' /\ MergedInv' /\ SettleInv'
  BY <1>1 DEF WorkInv, PrepassInv, PlaceInv, MergedInv, SettleInv
<1>6. ConflictInv'
  BY <1>1, SameConflicts DEF Listed
<1>7. ASSUME kills = 0, NEW r \in There, NEW s \in Rows, rows[r].of = Placeholder(s) PROVE FALSE
  <2>1. PICK m \in ToSet(merged) : m = <<r, s>>
    BY <1>7 DEF KeptInv
  <2>2. Shared(m[1], m[2])
    BY <1>2, <2>1 DEF SettleInv
  <2> QED  BY <1>7, <2>1, <2>2 DEF Shared, Waits
<1>8. KeptInv'
  BY <1>1, <1>7, SameText, SameRows DEF KeptInv, Waits
<1> QED  BY <1>3, <1>4, <1>5, <1>6, <1>8

(* A killed run leaves what it committed.                                  *)
LEMMA KillStep ==
    ASSUME TranscriptInv, Kill
    PROVE  TranscriptInv'
<1> USE DEF TranscriptInv
<1>1. /\ run' = NoRun /\ run'.at = "idle" /\ merged' = <<>> /\ UNCHANGED <<text, rows, links, reviews>>
      /\ kills' = kills + 1
  BY DEF Kill, NoRun
<1>2. kills' \in Nat /\ kills' # 0
  BY <1>1 DEF TypeInv
<1>3. TypeInv'
  BY <1>1, <1>2, SameText DEF TypeInv, RunType
<1>4. TargetsKnown'
  BY <1>1, SameLedger
<1>5. WorkInv' /\ PrepassInv' /\ PlaceInv' /\ MergedInv' /\ SettleInv'
  BY <1>1 DEF WorkInv, PrepassInv, PlaceInv, MergedInv, SettleInv
<1>6. ConflictInv'
  BY <1>1, SameConflicts DEF Listed
<1>7. KeptInv'
  BY <1>2 DEF KeptInv
<1> QED  BY <1>3, <1>4, <1>5, <1>6, <1>7

(* The stage of a run says what is known of it.                            *)
LEMMA Stages ==
    ASSUME RunType
    PROVE  /\ run.at \in {"segment", "settle"} => run \in Batches
           /\ run.at = "prepass" => PrepassType
           /\ run.at = "place" => run \in Placements
           /\ run.at = "settling" => run \in Settlements
<1>1. CASE run = NoRun
  BY <1>1 DEF NoRun
<1>2. CASE run \in Batches
  BY <1>2 DEF Batches
<1>3. CASE PrepassType
  <2>1. run.at = "prepass"
    BY <1>3 DEF PrepassType
  <2> QED  BY <2>1, <1>3
<1>4. CASE run \in Placements
  BY <1>4 DEF Placements
<1>5. CASE run \in Settlements
  BY <1>5 DEF Settlements
<1> QED  BY <1>1, <1>2, <1>3, <1>4, <1>5 DEF RunType

(* Entries of a sequence of rows are rows.                                 *)
LEMMA EntriesIn ==
    ASSUME NEW S, NEW q \in Seq(S)
    PROVE  ToSet(q) \subseteq S
  BY DEF ToSet

--------------------------------------------------------------------------------
(* The worklist and the pre-pass.                                          *)

(* A run starts with what is unfinished; without a kill nobody waits then. *)
LEMMA StartRunStep ==
    ASSUME TranscriptInv, StartRun
    PROVE  TranscriptInv'
<1> USE DEF TranscriptInv
<1> DEFINE S == {r \in Unfinished : rows[r].is = "failed"}
<1>1. /\ run.at = "idle" /\ rows' = Updated(S, "pending", NoTarget, FALSE) /\ merged' = <<>>
      /\ UNCHANGED <<text, links, reviews, kills>>
  BY DEF StartRun, At
<1>2. PICK work \in InOrder(Unfinished) :
          run' = [at |-> IF Unfinished = {} THEN "settle" ELSE "segment", work |-> work]
  BY DEF StartRun
<1>3. Current \subseteq There /\ There \subseteq Rows /\ Unfinished \subseteq Current
  BY CurrentThere DEF TypeInv, Unfinished, Current
<1>4. work \in Seq(Unfinished) /\ ToSet(work) = Unfinished /\ Distinct(work)
  <2>1. Unfinished \in SUBSET ((1..MaxVersions) \X (1..Segments))
    BY <1>3 DEF Rows
  <2> QED  BY <2>1, OrderOf, TranscriptAssumption
<1>5. /\ rows' \in [Rows -> Row]
      /\ \A r \in Rows \ S : rows'[r] = rows[r]
      /\ \A r \in Rows : r \in S => rows'[r].is = "pending" /\ rows'[r].of = NoTarget /\ rows'[r].attempts = rows[r].attempts
  <2>1. "pending" \in Dispositions /\ NoTarget \in Targets /\ FALSE \in BOOLEAN /\ rows \in [Rows -> Row]
    BY DEF Dispositions, Targets, TypeInv
  <2>2. PICK no \in BOOLEAN : no = FALSE
    OBVIOUS
  <2>3. rows' = Updated(S, "pending", NoTarget, no)
    BY <1>1, <2>2
  <2> HIDE DEF S
  <2> QED  BY <2>1, <2>3, RowsUpdated
<1> HIDE DEF S
<1>6. /\ There' = There /\ Current' = Current /\ (\A r : Says(r)' = Says(r)) /\ (TextType' <=> TextType)
      /\ Blocks' = Blocks
  BY <1>1, SameText, SameLinks
<1>7. run' \in Batches /\ run'.at \in {"segment", "settle"} /\ run'.work = work
  <2>1. work \in Seq(Rows)
    BY <1>3, <1>4
  <2> QED  BY <1>2, <2>1 DEF Batches
<1>8. TypeInv'
  <2>1. merged' \in Seq(Rows \X Rows)
    BY <1>1
  <2>2. RunType'
    BY <1>7 DEF RunType, Batches
  <2> QED  BY <1>1, <1>5, <1>6, <2>1, <2>2 DEF TypeInv
<1>9. \A r \in Rows : r \in S => rows[r].is = "failed" /\ r \in Unfinished
  BY DEF S
<1>10. TargetsKnown'
  <2>1. \A r \in There : r \in S => rows[r].attempts < MaxAttempts
    BY <1>3, <1>9 DEF TargetsKnown
  <2>2. \A r \in There : rows'[r] = rows[r] \/
          (rows'[r].is = "pending" /\ rows'[r].of = NoTarget /\ rows'[r].attempts < MaxAttempts)
    BY <1>3, <1>5, <2>1
  <2>3. \A r \in There : 
            /\ rows'[r].is = "duplicate" =>
                  (\E b \in Blocks : rows'[r].of = Block(b)) \/ (\E s \in There : rows'[r].of = Placeholder(s))
            /\ rows'[r].is # "duplicate" => rows'[r].of = NoTarget
            /\ rows'[r].is \in {"pending", "failed"} => rows'[r].attempts < MaxAttempts
    BY <2>2 DEF TargetsKnown
  <2> QED  BY <2>3, <1>1, <1>6 DEF TargetsKnown
<1>11. WorkInv'
  <2>1. ASSUME NEW r \in Unfinished PROVE rows'[r].is = "pending"
    <3>1. r \in S \/ rows[r].is = "pending"
      BY DEF Unfinished, S
    <3> QED  BY <3>1, <1>3, <1>5
  <2> QED  BY <1>1, <1>3, <1>4, <1>6, <1>7, <2>1 DEF WorkInv
<1>12. PrepassInv' /\ PlaceInv' /\ MergedInv' /\ SettleInv'
  BY <1>1, <1>7, NoEntries DEF PrepassInv, PlaceInv, MergedInv, SettleInv
<1>13. \A x \in There, s \in Rows : rows'[x].of = Placeholder(s) => rows[x].of = Placeholder(s)
  BY <1>3, <1>5, TargetFacts
<1>14. ConflictInv'
  <2> SUFFICES ASSUME NEW r \in There, rows'[r].is = "conflicted_pending", Wanted(r)' PROVE HasReview(r)'
    BY <1>6 DEF ConflictInv
  <2>1. rows[r].is = "conflicted_pending"
    BY <1>3, <1>5
  <2>2. Wanted(r)
    BY <1>3, <1>6, <1>7, <1>13 DEF Wanted, Listed
  <2>3. HasReview(r)
    BY <2>1, <2>2 DEF ConflictInv
  <2> QED  BY <2>3, <1>1 DEF HasReview
<1>15. KeptInv'
  <2> SUFFICES ASSUME kills = 0 PROVE KeptInv'
    BY <1>1 DEF KeptInv
  <2>1. \A r \in There : ~Waits(r)
    BY <1>1 DEF KeptInv
  <2>2. \A r \in There, s \in Rows : rows'[r].of # Placeholder(s)
    BY <2>1, <1>13 DEF Waits
  <2>3. \A r \in Current : rows'[r].is # "superseded"
    BY <1>3, <1>5 DEF KeptInv
  <2> QED  BY <2>2, <2>3, <1>6, <1>7 DEF KeptInv, Waits
<1> QED  BY <1>8, <1>10, <1>11, <1>12, <1>14, <1>15

(* An exception fails pending rows only: none that is merged.              *)
LEMMA BatchFailsStep ==
    ASSUME TranscriptInv, BatchFails
    PROVE  TranscriptInv'
<1> USE DEF TranscriptInv
<1> DEFINE S == {r \in ToSet(run.work) : rows[r].is = "pending"}
<1>1. /\ run.at \in {"segment", "place"} /\ rows' = mark_failed(S) /\ run' = [at |-> "settle", work |-> run.work]
      /\ UNCHANGED <<text, links, reviews, merged, kills>>
  BY DEF BatchFails
<1>2. Current \subseteq There /\ There \subseteq Rows
  BY CurrentThere DEF TypeInv
<1>3. run.work \in Seq(Rows) /\ ToSet(run.work) \subseteq Current
  BY <1>1, Stages DEF TypeInv, WorkInv, Batches, Placements
<1>4. S \subseteq Current /\ \A r \in S : rows[r].attempts < MaxAttempts /\ rows[r].is = "pending" /\ rows[r].of = NoTarget
  BY <1>2, <1>3 DEF TargetsKnown
<1>5. /\ rows' \in [Rows -> Row]
      /\ \A r \in Rows \ S : rows'[r] = rows[r]
      /\ \A r \in S : /\ rows'[r].is \in {"failed", "failed_final"} /\ rows'[r].of = NoTarget
                      /\ rows'[r].is = "failed" => rows'[r].attempts < MaxAttempts
  <2>1. S \subseteq Rows
    BY <1>2, <1>4
  <2> QED  BY <1>1, <1>4, <2>1, RowsFailed DEF TypeInv
<1> HIDE DEF S
<1>6. /\ There' = There /\ Current' = Current /\ (\A r : Says(r)' = Says(r)) /\ (TextType' <=> TextType)
      /\ Blocks' = Blocks
  BY <1>1, SameText, SameLinks
<1>7. run' \in Batches /\ run'.at = "settle"
  BY <1>1, <1>3 DEF Batches
<1>8. TypeInv'
  BY <1>1, <1>5, <1>6, <1>7 DEF TypeInv, RunType, Batches
<1>9. \A r \in Rows : rows'[r].of = rows[r].of
  BY <1>2, <1>4, <1>5
<1>10. TargetsKnown'
  BY <1>1, <1>2, <1>5, <1>6 DEF TargetsKnown
<1>11. WorkInv' /\ PrepassInv' /\ PlaceInv' /\ SettleInv'
  BY <1>7 DEF WorkInv, PrepassInv, PlaceInv, SettleInv
<1>12. \A r \in Rows : Waits(r)' <=> Waits(r)
  BY <1>9 DEF Waits
<1>13. MergedInv'
  <2> SUFFICES ASSUME NEW m \in ToSet(merged)
               PROVE  /\ m[1] \in Current /\ m[2] \in Current
                      /\ rows'[m[1]].is = "duplicate" /\ ~Waits(m[2])'
                      /\ rows'[m[1]].of = Placeholder(m[2]) \/ (rows'[m[1]].of = Block(m[2]) /\ <<m[2], m[2]>> \in links)
    BY <1>1, <1>6 DEF MergedInv
  <2>1. run.at = "place"
    BY <1>1, NoEntries DEF WorkInv
  <2>2. /\ m[1] \in Current /\ m[2] \in Current
        /\ rows[m[1]].is = "duplicate" /\ ~Waits(m[2])
        /\ rows[m[1]].of = Placeholder(m[2]) \/ (rows[m[1]].of = Block(m[2]) /\ <<m[2], m[2]>> \in links)
    BY <2>1 DEF MergedInv
  <2>3. m[1] \in Rows \ S
    BY <2>2, <1>2, <1>4
  <2> QED  BY <2>2, <2>3, <1>2, <1>5, <1>12
<1>14. ConflictInv'
  <2> SUFFICES ASSUME NEW r \in There, rows'[r].is = "conflicted_pending", Wanted(r)' PROVE HasReview(r)'
    BY <1>6 DEF ConflictInv
  <2>1. rows[r].is = "conflicted_pending"
    BY <1>2, <1>5
  <2>2. Wanted(r)
    BY <1>2, <1>6, <1>7, <1>9 DEF Wanted, Listed
  <2>3. HasReview(r)
    BY <2>1, <2>2 DEF ConflictInv
  <2> QED  BY <2>3, <1>1 DEF HasReview
<1>15. KeptInv'
  BY <1>1, <1>2, <1>5, <1>6, <1>7, <1>9 DEF KeptInv
<1> QED  BY <1>8, <1>10, <1>11, <1>13, <1>14, <1>15

(* The pre-pass begins: nothing is merged yet, and all is pending.         *)
LEMMA PreprocessStep ==
    ASSUME TranscriptInv, _preprocess_transcript_batch
    PROVE  TranscriptInv'
<1> USE DEF TranscriptInv
<1>1. run.at = "segment" /\ UNCHANGED <<text, rows, links, reviews, merged, kills>>
  BY DEF _preprocess_transcript_batch, At
<1>2. PICK c \in validate_c6_response(Len(run.work)) :
          run' = [at |-> "prepass", work |-> run.work, c |-> c, next |-> 1, survivors |-> <<>>]
  BY DEF _preprocess_transcript_batch
<1>3. run.work \in Seq(Rows) /\ merged = <<>>
  BY <1>1, Stages DEF TypeInv, Batches, WorkInv
<1>4. /\ run'.at = "prepass" /\ run'.work = run.work /\ run'.c = c /\ run'.next = 1 /\ run'.survivors = <<>>
  BY <1>2
<1>5. There' = There /\ Current' = Current
  BY <1>1, SameText
<1>6. TypeInv'
  <2>1. PrepassType'
    BY <1>2, <1>3, <1>4 DEF PrepassType
  <2> QED  BY <1>1, <2>1, SameText DEF TypeInv, RunType
<1>7. TargetsKnown'
  BY <1>1, SameLedger
<1>8. WorkInv'
  BY <1>1, <1>4, <1>5 DEF WorkInv
<1>9. PrepassInv'
  <2>1. \A j \in 1..Len(run.work) : rows[run.work[j]].is = "pending"
    <3>1. \A j \in 1..Len(run.work) : run.work[j] \in ToSet(run.work)
      BY <1>3 DEF ToSet
    <3> QED  BY <3>1, <1>1 DEF WorkInv
  <2> QED  BY <1>1, <1>3, <1>4, <2>1, NoEntries DEF PrepassInv
<1>10. PlaceInv' /\ MergedInv' /\ SettleInv'
  BY <1>1, <1>3, <1>4, NoEntries DEF PlaceInv, MergedInv, SettleInv
<1>11. ConflictInv'
  BY <1>1, <1>4, SameConflicts DEF Listed
<1>12. KeptInv'
  BY <1>1, <1>4, <1>5 DEF KeptInv
<1> QED  BY <1>6, <1>7, <1>8, <1>9, <1>10, <1>11, <1>12

(* What is known of the segment that the pre-pass comes to.                *)
LEMMA PrepassFacts ==
    ASSUME TranscriptInv, run.at = "prepass", run.next <= Len(run.work)
    PROVE  /\ run.work \in Seq(Rows) /\ run.survivors \in Seq(Rows) /\ Len(run.work) \in Nat
           /\ run.next \in 1..Len(run.work) /\ run.next + 1 \in 1..Len(run.work) + 1
           /\ \A j \in 1..Len(run.work) : run.work[j] \in Current
           /\ \A j, k \in 1..Len(run.work) : run.work[j] = run.work[k] => j = k
           /\ rows[run.work[run.next]].is = "pending"
           /\ run.c.by \in [1..Len(run.work) -> 0..Len(run.work)]
           /\ run.c.relevant \in [1..Len(run.work) -> BOOLEAN]
           /\ _validate_supersession(Len(run.work), run.c.relevant, run.c.by)
<1> USE DEF TranscriptInv
<1>1. PrepassType
  BY Stages DEF TypeInv
<1>2. run.work \in Seq(Rows) /\ run.survivors \in Seq(Rows) /\ Len(run.work) \in Nat
  BY <1>1 DEF PrepassType
<1>3. run.next \in 1..Len(run.work) /\ run.next + 1 \in 1..Len(run.work) + 1
  BY <1>1, <1>2 DEF PrepassType
<1>4. Distinct(run.work) /\ ToSet(run.work) \subseteq Current
  BY DEF WorkInv
<1>5. \A j \in 1..Len(run.work) : run.work[j] \in Current
  BY <1>2, <1>4 DEF ToSet
<1>6. \A j, k \in 1..Len(run.work) : run.work[j] = run.work[k] => j = k
  BY <1>2, <1>4 DEF Distinct
<1>7. rows[run.work[run.next]].is = "pending"
  BY <1>3 DEF PrepassInv
<1>8. /\ run.c.by \in [1..Len(run.work) -> 0..Len(run.work)]
      /\ run.c.relevant \in [1..Len(run.work) -> BOOLEAN]
      /\ _validate_supersession(Len(run.work), run.c.relevant, run.c.by)
  BY <1>1 DEF PrepassType, validate_c6_response
<1> QED  BY <1>2, <1>3, <1>5, <1>6, <1>7, <1>8

(* The run after the pre-pass has come to one more segment.                *)
LEMMA PrepassNext ==
    ASSUME TranscriptInv, run.at = "prepass", run.next <= Len(run.work), NEW q \in Seq(Rows),
           run' = [at |-> "prepass", work |-> run.work, c |-> run.c, next |-> run.next + 1, survivors |-> q],
           UNCHANGED <<text, links, reviews, kills>>, rows' \in [Rows -> Row], merged' \in Seq(Rows \X Rows)
    PROVE  TypeInv' /\ WorkInv' /\ PlaceInv' /\ SettleInv'
<1> USE DEF TranscriptInv
<1>1. /\ run'.at = "prepass" /\ run'.work = run.work /\ run'.c = run.c /\ run'.next = run.next + 1
      /\ run'.survivors = q
  OBVIOUS
<1>2. PrepassType
  BY Stages DEF TypeInv
<1>3. PrepassType'
  BY <1>1, <1>2, PrepassFacts DEF PrepassType
<1>4. TypeInv'
  BY <1>3, SameText DEF TypeInv, RunType
<1>5. WorkInv'
  BY <1>1, SameText DEF WorkInv
<1>6. PlaceInv' /\ SettleInv'
  BY <1>1 DEF PlaceInv, SettleInv
<1> QED  BY <1>4, <1>5, <1>6

(* The pre-pass in the form the proofs use.                                *)
LEMMA PrepassCases ==
    ASSUME TranscriptInv, apply_transcript_prepass
    PROVE  LET r == run.work[run.next]
               survivor == run.work[Survivor(run.c.by, run.next)]
               Goes(q) == run' = [at |-> "prepass", work |-> run.work, c |-> run.c, next |-> run.next + 1, survivors |-> q]
           IN /\ run.at = "prepass" /\ run.next <= Len(run.work) /\ UNCHANGED <<text, links, reviews, kills>>
              /\ \/ /\ ~run.c.relevant[run.next]
                    /\ rows' = Updated({r}, "irrelevant", NoTarget, FALSE) /\ UNCHANGED merged /\ Goes(run.survivors)
                 \/ /\ run.c.by[run.next] # 0
                    /\ rows' = Updated({r}, "duplicate", Placeholder(survivor), TRUE)
                    /\ merged' = Append(merged, <<r, survivor>>) /\ Goes(run.survivors)
                 \/ /\ run.c.relevant[run.next] /\ run.c.by[run.next] = 0
                    /\ UNCHANGED <<rows, merged>> /\ Goes(Append(run.survivors, r))
<1>1. run.at = "prepass" /\ run.next <= Len(run.work) /\ UNCHANGED <<text, links, reviews, kills>>
  BY DEF apply_transcript_prepass, At
<1>2. PrepassType
  BY <1>1, Stages DEF TranscriptInv, TypeInv
<1>3. PICK work, c, next, survivors :
          /\ run = [at |-> "prepass", work |-> work, c |-> c, next |-> next, survivors |-> survivors]
          /\ work = run.work /\ c = run.c /\ next = run.next /\ survivors = run.survivors
  BY <1>2 DEF PrepassType
<1>4. [run EXCEPT !.next = @ + 1] = [at |-> "prepass", work |-> work, c |-> c, next |-> next + 1, survivors |-> survivors]
  BY <1>3
<1>5. [run EXCEPT !.next = @ + 1, !.survivors = Append(@, work[next])]
        = [at |-> "prepass", work |-> work, c |-> c, next |-> next + 1, survivors |-> Append(survivors, work[next])]
  <2>1. PICK more : more = Append(survivors, work[next])
    OBVIOUS
  <2>2. [run EXCEPT !.next = @ + 1, !.survivors = Append(@, work[next])] = [run EXCEPT !.next = @ + 1, !.survivors = more]
    BY <1>3, <2>1
  <2>3. [run EXCEPT !.next = @ + 1, !.survivors = more]
          = [at |-> "prepass", work |-> work, c |-> c, next |-> next + 1, survivors |-> more]
    <3>1. PICK later : later = next + 1
      OBVIOUS
    <3>2. [run EXCEPT !.next = @ + 1, !.survivors = more] = [run EXCEPT !.next = later, !.survivors = more]
      BY <1>3, <3>1
    <3>3. [run EXCEPT !.next = later, !.survivors = more]
            = [at |-> "prepass", work |-> work, c |-> c, next |-> later, survivors |-> more]
      <4>1. PICK mid : mid = [run EXCEPT !.next = later]
        OBVIOUS
      <4>2. mid = [at |-> "prepass", work |-> work, c |-> c, next |-> later, survivors |-> survivors]
        BY <1>3, <4>1
      <4>3. [mid EXCEPT !.survivors = more]
              = [at |-> "prepass", work |-> work, c |-> c, next |-> later, survivors |-> more]
        BY <4>2
      <4>4. [run EXCEPT !.next = later, !.survivors = more] = [mid EXCEPT !.survivors = more]
        BY <4>1
      <4> QED  BY <4>3, <4>4
    <3> QED  BY <3>1, <3>2, <3>3
  <2> QED  BY <2>1, <2>2, <2>3
<1>6. CASE ~run.c.relevant[run.next]
  BY <1>1, <1>3, <1>4, <1>6 DEF apply_transcript_prepass
<1>7. CASE run.c.relevant[run.next] /\ run.c.by[run.next] # 0
  BY <1>1, <1>3, <1>4, <1>7 DEF apply_transcript_prepass
<1>8. CASE run.c.relevant[run.next] /\ run.c.by[run.next] = 0
  <2>1. run' = [run EXCEPT !.next = @ + 1, !.survivors = Append(@, work[next])] /\ UNCHANGED <<rows, merged>>
    BY <1>3, <1>8 DEF apply_transcript_prepass
  <2> QED  BY <1>1, <1>3, <1>5, <1>8, <2>1
<1> QED  BY <1>6, <1>7, <1>8

(* What the pre-pass says of the rows that it merged.                      *)
LEMMA MergedInPrepass ==
    ASSUME TranscriptInv, run.at = "prepass", run.next <= Len(run.work), NEW m \in ToSet(merged)
    PROVE  /\ m[1] \in Current /\ m[2] \in Current /\ m[1] # run.work[run.next]
           /\ rows[m[1]].is = "duplicate" /\ ~Waits(m[2])
           /\ rows[m[1]].of = Placeholder(m[2]) \/ (rows[m[1]].of = Block(m[2]) /\ <<m[2], m[2]>> \in links)
           /\ run.c.by[run.next] # 0 => m[2] # run.work[run.next]
<1>1. PICK i \in 1..Len(run.work), e \in 1..Len(run.work) :
          /\ i < run.next /\ run.c.by[i] # 0 /\ run.c.by[e] = 0 /\ run.c.relevant[e]
          /\ m = <<run.work[i], run.work[e]>>
  BY DEF TranscriptInv, PrepassInv
<1>2. m[1] = run.work[i] /\ m[2] = run.work[e]
  BY <1>1
<1>3. i # run.next /\ (run.c.by[run.next] # 0 => e # run.next)
  BY <1>1, PrepassFacts
<1>4. m[1] # run.work[run.next] /\ (run.c.by[run.next] # 0 => m[2] # run.work[run.next])
  BY <1>2, <1>3, PrepassFacts
<1> QED  BY <1>4 DEF TranscriptInv, MergedInv

(* What the pre-pass leaves pending when it changes the row it has come to *)
(* is not changed.                                                         *)
LEMMA PrepassLeaves ==
    ASSUME TranscriptInv, run.at = "prepass", run.next <= Len(run.work),
           ~run.c.relevant[run.next] \/ run.c.by[run.next] # 0,
           run'.at = "prepass", run'.work = run.work, run'.c = run.c, run'.next = run.next + 1,
           run'.survivors = run.survivors,
           \A x \in Rows \ {run.work[run.next]} : rows'[x] = rows[x],
           \A m \in ToSet(merged') : m \in ToSet(merged) \/ \E e \in 1..Len(run.work) :
              /\ run.c.by[run.next] # 0 /\ run.c.by[e] = 0 /\ run.c.relevant[e]
              /\ m = <<run.work[run.next], run.work[e]>>
    PROVE  PrepassInv'
<1> USE DEF TranscriptInv
<1>1. Current \subseteq Rows
  BY CurrentThere DEF TypeInv
<1>2. ASSUME NEW j \in 1..Len(run.work), run.next + 1 <= j \/ (run.c.by[j] = 0 /\ run.c.relevant[j])
      PROVE rows'[run.work[j]].is = "pending"
  <2>1. j # run.next
    BY <1>2, PrepassFacts
  <2>2. run.work[j] \in Rows \ {run.work[run.next]}
    BY <1>1, <2>1, PrepassFacts
  <2>3. run.next <= j \/ (run.c.by[j] = 0 /\ run.c.relevant[j])
    BY <1>2, PrepassFacts
  <2>4. rows[run.work[j]].is = "pending"
    BY <2>3 DEF PrepassInv
  <2> QED  BY <2>2, <2>4
<1>3. ASSUME NEW m \in ToSet(merged')
      PROVE  \E i, e \in 1..Len(run.work) :
                /\ i < run.next + 1 /\ run.c.by[i] # 0 /\ run.c.by[e] = 0 /\ run.c.relevant[e]
                /\ m = <<run.work[i], run.work[e]>>
  <2>1. CASE m \in ToSet(merged)
    <3>1. PICK i \in 1..Len(run.work), e \in 1..Len(run.work) :
              /\ i < run.next /\ run.c.by[i] # 0 /\ run.c.by[e] = 0 /\ run.c.relevant[e]
              /\ m = <<run.work[i], run.work[e]>>
      BY <2>1 DEF PrepassInv
    <3>2. i < run.next + 1
      BY <3>1, PrepassFacts
    <3> QED  BY <3>1, <3>2
  <2>2. CASE m \notin ToSet(merged)
    <3>1. PICK e \in 1..Len(run.work) :
              /\ run.c.by[run.next] # 0 /\ run.c.by[e] = 0 /\ run.c.relevant[e]
              /\ m = <<run.work[run.next], run.work[e]>>
      BY <1>3, <2>2
    <3>2. run.next \in 1..Len(run.work) /\ run.next < run.next + 1
      BY PrepassFacts
    <3> QED  BY <3>1, <3>2
  <2> QED  BY <2>1, <2>2
<1>4. ASSUME NEW r \in ToSet(run.survivors)
      PROVE  \E j \in 1..Len(run.work) : j < run.next + 1 /\ run.c.by[j] = 0 /\ run.c.relevant[j] /\ r = run.work[j]
  <2>1. PICK j \in 1..Len(run.work) : j < run.next /\ run.c.by[j] = 0 /\ run.c.relevant[j] /\ r = run.work[j]
    BY <1>4 DEF PrepassInv
  <2>2. j < run.next + 1
    BY <2>1, PrepassFacts
  <2> QED  BY <2>1, <2>2
<1>5. Distinct(run.survivors)
  BY DEF PrepassInv
<1> QED  BY <1>2, <1>3, <1>4, <1>5 DEF PrepassInv

(* A segment that is irrelevant.                                           *)
LEMMA PrepassIrrelevant ==
    ASSUME TranscriptInv, run.at = "prepass", run.next <= Len(run.work), ~run.c.relevant[run.next],
           UNCHANGED <<text, links, reviews, kills, merged>>,
           rows' = Updated({run.work[run.next]}, "irrelevant", NoTarget, FALSE),
           run' = [at |-> "prepass", work |-> run.work, c |-> run.c, next |-> run.next + 1, survivors |-> run.survivors]
    PROVE  TranscriptInv'
<1> USE DEF TranscriptInv
<1>1. PICK r : r = run.work[run.next]
  OBVIOUS
<1>2. Current \subseteq There /\ There \subseteq Rows /\ r \in Current
  BY <1>1, CurrentThere, PrepassFacts DEF TypeInv
<1>3. /\ rows' \in [Rows -> Row] /\ \A x \in Rows \ {r} : rows'[x] = rows[x]
      /\ rows'[r].is = "irrelevant" /\ rows'[r].of = NoTarget
  <2>1. PICK no \in BOOLEAN : no = FALSE
    OBVIOUS
  <2>2. rows' = Updated({r}, "irrelevant", NoTarget, no)
    BY <1>1, <2>1
  <2>3. "irrelevant" \in Dispositions /\ NoTarget \in Targets /\ rows \in [Rows -> Row]
    BY DEF Dispositions, Targets, TypeInv
  <2>4. r \in Rows
    BY <1>2
  <2>5. Becomes(r, "irrelevant", NoTarget)
    BY <2>1, <2>2, <2>3, <2>4, RowUpdated
  <2> QED  BY <2>5 DEF Becomes
<1>4. /\ There' = There /\ Current' = Current /\ (\A x : Says(x)' = Says(x)) /\ Blocks' = Blocks
  BY SameText, SameLinks
<1>5. /\ run'.at = "prepass" /\ run'.work = run.work /\ run'.c = run.c /\ run'.next = run.next + 1
      /\ run'.survivors = run.survivors
  OBVIOUS
<1>6. TypeInv' /\ WorkInv' /\ PlaceInv' /\ SettleInv'
  BY <1>3, PrepassFacts, PrepassNext DEF TypeInv
<1>7. TargetsKnown'
  <2>1. \A x \in There \ {r} : rows'[x] = rows[x]
    BY <1>2, <1>3
  <2>2. \A v \in reviews' : v.existing \in Blocks
    BY DEF TargetsKnown
  <2> QED  BY <1>2, <1>3, <2>1, <2>2, OneTarget
<1>8. PrepassInv'
  BY <1>1, <1>3, <1>5, PrepassLeaves
<1>9. \A x, s \in Rows : rows'[x].of = Placeholder(s) => rows[x].of = Placeholder(s)
  BY <1>3, TargetFacts
<1>10. MergedInv'
  <2>1. ASSUME NEW m \in ToSet(merged)
        PROVE  /\ m[1] \in Current /\ m[2] \in Current
               /\ rows'[m[1]].is = "duplicate" /\ ~Waits(m[2])'
               /\ rows'[m[1]].of = Placeholder(m[2]) \/ (rows'[m[1]].of = Block(m[2]) /\ <<m[2], m[2]>> \in links)
    <3>1. /\ m[1] \in Current /\ m[2] \in Current /\ m[1] # r
          /\ rows[m[1]].is = "duplicate" /\ ~Waits(m[2])
          /\ rows[m[1]].of = Placeholder(m[2]) \/ (rows[m[1]].of = Block(m[2]) /\ <<m[2], m[2]>> \in links)
      BY <1>1, MergedInPrepass
    <3>2. m[1] \in Rows \ {r} /\ m[2] \in Rows
      BY <1>2, <3>1
    <3> QED  BY <3>1, <3>2, <1>3, <1>9 DEF Waits
  <2> QED  BY <1>4, <2>1 DEF MergedInv
<1>11. ConflictInv'
  <2> SUFFICES ASSUME NEW x \in There, rows'[x].is = "conflicted_pending", Wanted(x)' PROVE HasReview(x)'
    BY <1>4 DEF ConflictInv
  <2>1. rows[x].is = "conflicted_pending"
    BY <1>2, <1>3
  <2>2. Wanted(x)
    BY <1>2, <1>4, <1>5, <1>9 DEF Wanted, Listed
  <2>3. HasReview(x)
    BY <2>1, <2>2 DEF ConflictInv
  <2> QED  BY <2>3 DEF HasReview
<1>12. KeptInv'
  BY <1>2, <1>3, <1>4, <1>5, <1>9 DEF KeptInv
<1> QED  BY <1>6, <1>7, <1>8, <1>10, <1>11, <1>12

(* A segment that is superseded waits for the end of its chain.            *)
LEMMA PrepassMerges ==
    ASSUME TranscriptInv, run.at = "prepass", run.next <= Len(run.work), run.c.by[run.next] # 0,
           UNCHANGED <<text, links, reviews, kills>>,
           NEW survivor, survivor = run.work[Survivor(run.c.by, run.next)],
           rows' = Updated({run.work[run.next]}, "duplicate", Placeholder(survivor), TRUE),
           merged' = Append(merged, <<run.work[run.next], survivor>>),
           run' = [at |-> "prepass", work |-> run.work, c |-> run.c, next |-> run.next + 1, survivors |-> run.survivors]
    PROVE  TranscriptInv'
<1> USE DEF TranscriptInv
<1>1. PICK r : r = run.work[run.next]
  OBVIOUS
<1>2. PICK e : e = Survivor(run.c.by, run.next)
  OBVIOUS
<1>3. e \in 1..Len(run.work) /\ e > run.next /\ run.c.by[e] = 0 /\ run.c.relevant[e]
  <2>1. PICK n \in Nat : n = Len(run.work)
    BY PrepassFacts
  <2>2. PICK i \in 1..n : i = run.next
    BY <2>1, PrepassFacts
  <2>3. PICK by \in [1..n -> 0..n], relevant \in [1..n -> BOOLEAN] :
            by = run.c.by /\ relevant = run.c.relevant /\ _validate_supersession(n, relevant, by)
    BY <2>1, PrepassFacts
  <2>4. by[i] # 0 /\ e = Survivor(by, i)
    BY <1>2, <2>2, <2>3
  <2>5. e \in 1..n /\ e > i /\ by[e] = 0 /\ relevant[e]
    BY <2>3, <2>4, SurvivorEndsChain
  <2> QED  BY <2>1, <2>2, <2>3, <2>5
<1>4. survivor = run.work[e]
  BY <1>2
<1>5. Current \subseteq There /\ There \subseteq Rows /\ r \in Current /\ survivor \in Current /\ survivor # r
  <2>1. Current \subseteq There /\ There \subseteq Rows
    BY CurrentThere DEF TypeInv
  <2>2. r \in Current /\ survivor \in Current
    BY <1>1, <1>3, <1>4, PrepassFacts
  <2>3. e # run.next
    BY <1>3, PrepassFacts
  <2>4. survivor # r
    BY <1>1, <1>3, <1>4, <2>3, PrepassFacts
  <2> QED  BY <2>1, <2>2, <2>4
<1>6. /\ rows' \in [Rows -> Row] /\ \A x \in Rows \ {r} : rows'[x] = rows[x]
      /\ rows'[r].is = "duplicate" /\ rows'[r].of = Placeholder(survivor)
  <2>1. PICK yes \in BOOLEAN : yes = TRUE
    OBVIOUS
  <2>2. rows' = Updated({r}, "duplicate", Placeholder(survivor), yes)
    BY <1>1, <2>1
  <2>3. "duplicate" \in Dispositions /\ Placeholder(survivor) \in Targets /\ rows \in [Rows -> Row]
    BY <1>5 DEF Dispositions, Targets, TypeInv
  <2>4. r \in Rows
    BY <1>5
  <2>5. Becomes(r, "duplicate", Placeholder(survivor))
    BY <2>1, <2>2, <2>3, <2>4, RowUpdated
  <2> QED  BY <2>5 DEF Becomes
<1>7. /\ There' = There /\ Current' = Current /\ (\A x : Says(x)' = Says(x)) /\ Blocks' = Blocks
  BY SameText, SameLinks
<1>8. /\ run'.at = "prepass" /\ run'.work = run.work /\ run'.c = run.c /\ run'.next = run.next + 1
      /\ run'.survivors = run.survivors
  OBVIOUS
<1>9. merged' \in Seq(Rows \X Rows) /\ ToSet(merged') = ToSet(merged) \cup {<<r, survivor>>}
  <2>1. PICK S, m : S = Rows \X Rows /\ m = <<r, survivor>>
    OBVIOUS
  <2>2. m \in S /\ merged \in Seq(S)
    BY <1>5, <2>1 DEF TypeInv
  <2>3. merged' = Append(merged, m)
    BY <1>1, <2>1
  <2>4. Append(merged, m) \in Seq(S) /\ ToSet(Append(merged, m)) = ToSet(merged) \cup {m}
    BY <2>2, AppendEntries
  <2> QED  BY <2>1, <2>3, <2>4
<1>10. TypeInv' /\ WorkInv' /\ PlaceInv' /\ SettleInv'
  BY <1>6, <1>9, PrepassFacts, PrepassNext DEF TypeInv
<1>11. TargetsKnown'
  <2>1. \A x \in There \ {r} : rows'[x] = rows[x]
    BY <1>5, <1>6
  <2>2. \A v \in reviews' : v.existing \in Blocks
    BY DEF TargetsKnown
  <2> QED  BY <1>5, <1>6, <2>1, <2>2, OneTarget
<1>12. PrepassInv'
  BY <1>1, <1>3, <1>4, <1>6, <1>8, <1>9, PrepassLeaves
<1>13. \A x \in Rows \ {r} : Waits(x)' <=> Waits(x)
  BY <1>6 DEF Waits
<1>14. rows[survivor].is = "pending" /\ rows[survivor].of = NoTarget /\ ~Waits(survivor)
  <2>1. rows[survivor].is = "pending"
    BY <1>3, <1>4 DEF PrepassInv
  <2>2. rows[survivor].of = NoTarget
    BY <1>5, <2>1 DEF TargetsKnown
  <2> QED  BY <2>1, <2>2, TargetFacts DEF Waits
<1>15. MergedInv'
  <2>1. ASSUME NEW m \in ToSet(merged)
        PROVE  /\ m[1] \in Current /\ m[2] \in Current
               /\ rows'[m[1]].is = "duplicate" /\ ~Waits(m[2])'
               /\ rows'[m[1]].of = Placeholder(m[2]) \/ (rows'[m[1]].of = Block(m[2]) /\ <<m[2], m[2]>> \in links)
    <3>1. /\ m[1] \in Current /\ m[2] \in Current /\ m[1] # r /\ m[2] # r
          /\ rows[m[1]].is = "duplicate" /\ ~Waits(m[2])
          /\ rows[m[1]].of = Placeholder(m[2]) \/ (rows[m[1]].of = Block(m[2]) /\ <<m[2], m[2]>> \in links)
      BY <1>1, MergedInPrepass
    <3>2. m[1] \in Rows \ {r} /\ m[2] \in Rows \ {r}
      BY <1>5, <3>1
    <3> QED  BY <3>1, <3>2, <1>6, <1>13
  <2>2. ASSUME NEW m, m = <<r, survivor>>
        PROVE  /\ m[1] \in Current /\ m[2] \in Current
               /\ rows'[m[1]].is = "duplicate" /\ ~Waits(m[2])'
               /\ rows'[m[1]].of = Placeholder(m[2])
    <3>1. m[1] = r /\ m[2] = survivor /\ survivor \in Rows \ {r}
      BY <1>5, <2>2
    <3> QED  BY <3>1, <1>5, <1>6, <1>13, <1>14
  <2> QED  BY <1>7, <1>9, <2>1, <2>2 DEF MergedInv
<1>16. ConflictInv'
  <2> SUFFICES ASSUME NEW x \in There, rows'[x].is = "conflicted_pending", Wanted(x)' PROVE HasReview(x)'
    BY <1>7 DEF ConflictInv
  <2>1. x # r /\ rows[x].is = "conflicted_pending"
    BY <1>5, <1>6
  <2>2. x # survivor
    BY <2>1, <1>14
  <2>3. \A y \in There : rows'[y].of = Placeholder(x) => rows[y].of = Placeholder(x)
    <3>1. rows'[r].of # Placeholder(x)
      <4>1. Placeholder(survivor) # Placeholder(x)
        BY <2>2, TargetFacts
      <4> QED  BY <4>1, <1>6
    <3> QED  BY <3>1, <1>5, <1>6
  <2>4. Wanted(x)
    BY <2>3, <1>7, <1>8 DEF Wanted, Listed
  <2>5. HasReview(x)
    BY <2>1, <2>4 DEF ConflictInv
  <2> QED  BY <2>5 DEF HasReview
<1>17. KeptInv'
  <2> SUFFICES ASSUME kills = 0 PROVE KeptInv'
    BY DEF KeptInv
  <2>1. \A x \in Current : rows'[x].is # "superseded"
    BY <1>5, <1>6 DEF KeptInv
  <2>2. ASSUME NEW x \in There, NEW s \in Rows, rows'[x].of = Placeholder(s) PROVE <<x, s>> \in ToSet(merged')
    <3>1. CASE x = r
      <4>1. Placeholder(s) = Placeholder(survivor)
        BY <2>2, <3>1, <1>6
      <4>2. s = survivor
        BY <4>1, TargetFacts
      <4> QED  BY <3>1, <4>2, <1>9
    <3>2. CASE x # r
      BY <2>2, <3>2, <1>5, <1>6, <1>9 DEF KeptInv
    <3> QED  BY <3>1, <3>2
  <2> QED  BY <2>1, <2>2, <1>7, <1>8 DEF KeptInv
<1> QED  BY <1>10, <1>11, <1>12, <1>15, <1>16, <1>17

(* A segment that is left to be placed.                                    *)
LEMMA PrepassSurvives ==
    ASSUME TranscriptInv, run.at = "prepass", run.next <= Len(run.work),
           run.c.relevant[run.next], run.c.by[run.next] = 0,
           UNCHANGED <<text, rows, links, reviews, merged, kills>>,
           run' = [at |-> "prepass", work |-> run.work, c |-> run.c, next |-> run.next + 1,
                   survivors |-> Append(run.survivors, run.work[run.next])]
    PROVE  TranscriptInv'
<1> USE DEF TranscriptInv
<1>1. PICK r : r = run.work[run.next]
  OBVIOUS
<1>2. PICK q : q = Append(run.survivors, r)
  OBVIOUS
<1>3. /\ run'.at = "prepass" /\ run'.work = run.work /\ run'.c = run.c /\ run'.next = run.next + 1
      /\ run'.survivors = q
  BY <1>1, <1>2
<1>4. Current \subseteq There /\ There \subseteq Rows /\ r \in Current
  BY <1>1, CurrentThere, PrepassFacts DEF TypeInv
<1>5. /\ q \in Seq(Rows) /\ ToSet(q) = ToSet(run.survivors) \cup {r}
      /\ Distinct(run.survivors) /\ r \notin ToSet(run.survivors) => Distinct(q)
  <2>1. r \in Rows /\ run.survivors \in Seq(Rows)
    BY <1>4, PrepassFacts
  <2> QED  BY <1>2, <2>1, AppendEntries
<1>6. TypeInv' /\ WorkInv' /\ PlaceInv' /\ SettleInv'
  <2>1. run' = [at |-> "prepass", work |-> run.work, c |-> run.c, next |-> run.next + 1, survivors |-> q]
    BY <1>1, <1>2
  <2> QED  BY <1>5, <2>1, PrepassNext DEF TypeInv
<1>7. TargetsKnown'
  BY SameLedger
<1>8. PrepassInv'
  <2>1. ASSUME NEW j \in 1..Len(run.work), run.next + 1 <= j \/ (run.c.by[j] = 0 /\ run.c.relevant[j])
        PROVE  rows[run.work[j]].is = "pending"
    <3>1. run.next <= j \/ (run.c.by[j] = 0 /\ run.c.relevant[j])
      BY <2>1, PrepassFacts
    <3> QED  BY <3>1 DEF PrepassInv
  <2>2. ASSUME NEW m \in ToSet(merged)
        PROVE  \E i, e \in 1..Len(run.work) :
                  /\ i < run.next + 1 /\ run.c.by[i] # 0 /\ run.c.by[e] = 0 /\ run.c.relevant[e]
                  /\ m = <<run.work[i], run.work[e]>>
    <3>1. PICK i \in 1..Len(run.work), e \in 1..Len(run.work) :
              /\ i < run.next /\ run.c.by[i] # 0 /\ run.c.by[e] = 0 /\ run.c.relevant[e]
              /\ m = <<run.work[i], run.work[e]>>
      BY DEF PrepassInv
    <3>2. i < run.next + 1
      BY <3>1, PrepassFacts
    <3> QED  BY <3>1, <3>2
  <2>3. ASSUME NEW x \in ToSet(q)
        PROVE  \E j \in 1..Len(run.work) : j < run.next + 1 /\ run.c.by[j] = 0 /\ run.c.relevant[j] /\ x = run.work[j]
    <3>1. CASE x = r
      <4>1. run.next \in 1..Len(run.work) /\ run.next < run.next + 1
        BY PrepassFacts
      <4> QED  BY <3>1, <4>1, <1>1
    <3>2. CASE x \in ToSet(run.survivors)
      <4>1. PICK j \in 1..Len(run.work) : j < run.next /\ run.c.by[j] = 0 /\ run.c.relevant[j] /\ x = run.work[j]
        BY <3>2 DEF PrepassInv
      <4>2. j < run.next + 1
        BY <4>1, PrepassFacts
      <4> QED  BY <4>1, <4>2
    <3> QED  BY <3>1, <3>2, <1>5
  <2>4. r \notin ToSet(run.survivors)
    <3> SUFFICES ASSUME r \in ToSet(run.survivors) PROVE FALSE
      OBVIOUS
    <3>1. PICK j \in 1..Len(run.work) : j < run.next /\ r = run.work[j]
      BY DEF PrepassInv
    <3>2. j # run.next
      BY <3>1, PrepassFacts
    <3> QED  BY <3>1, <3>2, <1>1, PrepassFacts
  <2>5. Distinct(q)
    BY <1>5, <2>4 DEF PrepassInv
  <2>6. rows' = rows /\ merged' = merged /\ ToSet(run.survivors)' = ToSet(q)
    BY <1>3
  <2>7. \A j \in 1..Len(run'.work) :
            run'.next <= j \/ (run'.c.by[j] = 0 /\ run'.c.relevant[j]) => rows'[run'.work[j]].is = "pending"
    BY <1>3, <2>1, <2>6
  <2>8. \A m \in ToSet(merged') : \E i, e \in 1..Len(run'.work) :
            /\ i < run'.next /\ run'.c.by[i] # 0
            /\ run'.c.by[e] = 0 /\ run'.c.relevant[e]
            /\ m = <<run'.work[i], run'.work[e]>>
    BY <1>3, <2>2, <2>6
  <2>9. \A x \in ToSet(run'.survivors) : \E j \in 1..Len(run'.work) :
            j < run'.next /\ run'.c.by[j] = 0 /\ run'.c.relevant[j] /\ x = run'.work[j]
    BY <1>3, <2>3
  <2>10. Distinct(run'.survivors)
    BY <1>3, <2>5
  <2> QED  BY <2>7, <2>8, <2>9, <2>10 DEF PrepassInv
<1>9. MergedInv'
  BY <1>3, SameText, SameRows DEF MergedInv
<1>10. ConflictInv'
  BY <1>3, SameConflicts DEF Listed
<1>11. KeptInv'
  BY <1>3, SameText DEF KeptInv
<1> QED  BY <1>6, <1>7, <1>8, <1>9, <1>10, <1>11

(* The pre-pass merges the rows that chains lead away from.                *)
LEMMA PrepassStep ==
    ASSUME TranscriptInv, apply_transcript_prepass
    PROVE  TranscriptInv'
<1>1. run.at = "prepass" /\ run.next <= Len(run.work) /\ UNCHANGED <<text, links, reviews, kills>>
  BY PrepassCases
<1>2. CASE ~run.c.relevant[run.next] /\ UNCHANGED merged
           /\ rows' = Updated({run.work[run.next]}, "irrelevant", NoTarget, FALSE)
           /\ run' = [at |-> "prepass", work |-> run.work, c |-> run.c, next |-> run.next + 1, survivors |-> run.survivors]
  BY <1>1, <1>2, PrepassIrrelevant
<1>3. CASE /\ run.c.by[run.next] # 0
           /\ rows' = Updated({run.work[run.next]}, "duplicate", Placeholder(run.work[Survivor(run.c.by, run.next)]), TRUE)
           /\ merged' = Append(merged, <<run.work[run.next], run.work[Survivor(run.c.by, run.next)]>>)
           /\ run' = [at |-> "prepass", work |-> run.work, c |-> run.c, next |-> run.next + 1, survivors |-> run.survivors]
  BY <1>1, <1>3, PrepassMerges
<1>4. CASE /\ run.c.relevant[run.next] /\ run.c.by[run.next] = 0 /\ UNCHANGED <<rows, merged>>
           /\ run' = [at |-> "prepass", work |-> run.work, c |-> run.c, next |-> run.next + 1,
                      survivors |-> Append(run.survivors, run.work[run.next])]
  BY <1>1, <1>4, PrepassSurvives
<1> QED  BY <1>2, <1>3, <1>4, PrepassCases

--------------------------------------------------------------------------------
(* Placing the survivors.                                                  *)

(* What the pre-pass left alone is pending, and was not merged.            *)
LEMMA PlaceSurvivorsStep ==
    ASSUME TranscriptInv, _place_transcript_survivors
    PROVE  TranscriptInv'
<1> USE DEF TranscriptInv
<1>1. /\ run.at = "prepass" /\ UNCHANGED <<text, rows, links, reviews, merged, kills>>
      /\ run' = [at |-> "place", work |-> run.work, left |-> run.survivors, step |-> "judge"]
  BY DEF _place_transcript_survivors, At
<1>2. run'.at = "place" /\ run'.work = run.work /\ run'.left = run.survivors /\ run'.step = "judge"
  BY <1>1
<1>3. run.work \in Seq(Rows) /\ run.survivors \in Seq(Rows)
  BY <1>1, Stages DEF TypeInv, PrepassType
<1>4. Distinct(run.work) /\ ToSet(run.work) \subseteq Current
  BY <1>1 DEF WorkInv
<1>5. \A i \in 1..Len(run.work) : run.work[i] \in Current
  BY <1>3, <1>4 DEF ToSet
<1>6. There' = There /\ Current' = Current
  BY <1>1, SameText
<1>7. TypeInv'
  <2>1. run' \in Placements
    BY <1>1, <1>3 DEF Placements
  <2> QED  BY <1>1, <2>1, SameText DEF TypeInv, RunType, Placements
<1>8. TargetsKnown'
  BY <1>1, SameLedger
<1>9. WorkInv'
  BY <1>2, <1>4, <1>6 DEF WorkInv
<1>10. PlaceInv'
  <2>1. ASSUME NEW r \in ToSet(run.survivors)
        PROVE  rows[r].is = "pending" /\ r \in Current /\ \A m \in ToSet(merged) : m[1] # r
    <3>1. PICK j \in 1..Len(run.work) : run.c.by[j] = 0 /\ run.c.relevant[j] /\ r = run.work[j]
      BY <1>1 DEF PrepassInv
    <3>2. rows[r].is = "pending" /\ r \in Current
      BY <1>1, <1>5, <3>1 DEF PrepassInv
    <3>3. ASSUME NEW m \in ToSet(merged) PROVE m[1] # r
      <4>1. PICK i \in 1..Len(run.work), e \in 1..Len(run.work) :
                run.c.by[i] # 0 /\ m = <<run.work[i], run.work[e]>>
        BY <1>1 DEF PrepassInv
      <4>2. i # j /\ m[1] = run.work[i]
        BY <3>1, <4>1
      <4> QED  BY <1>3, <1>4, <3>1, <4>2 DEF Distinct
    <3> QED  BY <3>2, <3>3
  <2>2. Distinct(run.survivors)
    BY <1>1 DEF PrepassInv
  <2> QED  BY <1>1, <1>2, <1>6, <2>1, <2>2 DEF PlaceInv
<1>11. PrepassInv' /\ SettleInv'
  BY <1>2 DEF PrepassInv, SettleInv
<1>12. MergedInv'
  BY <1>1, <1>2, SameText, SameRows DEF MergedInv
<1>13. ConflictInv'
  BY <1>1, <1>2, SameConflicts DEF Listed
<1>14. KeptInv'
  BY <1>1, <1>2, <1>6 DEF KeptInv
<1> QED  BY <1>7, <1>8, <1>9, <1>10, <1>11, <1>12, <1>13, <1>14

(* The run goes on to the next survivor, or to another step.               *)
LEMMA PlaceRuns ==
    ASSUME RunType, run.at = "place"
    PROVE  /\ run.work \in Seq(Rows) /\ run.left \in Seq(Rows)
           /\ run.left # <<>> /\ run' = NextSurvivor =>
                /\ run' \in Placements /\ run'.at = "place" /\ run'.work = run.work
                /\ run'.left = Tail(run.left) /\ run'.step = "judge"
           /\ \A step \in {"judge", "resolve", "record", "conflict"} : run' = [run EXCEPT !.step = step] =>
                /\ run' \in Placements /\ run'.at = "place" /\ run'.work = run.work
                /\ run'.left = run.left /\ run'.step = step
<1>1. run \in Placements
  BY Stages
<1>2. run.work \in Seq(Rows) /\ run.left \in Seq(Rows)
  BY <1>1 DEF Placements
<1>3. ASSUME run.left # <<>>, run' = NextSurvivor
      PROVE  /\ run' \in Placements /\ run'.at = "place" /\ run'.work = run.work
             /\ run'.left = Tail(run.left) /\ run'.step = "judge"
  <2>1. PICK rest \in Seq(Rows) : rest = Tail(run.left)
    BY <1>2, <1>3, TailEntries
  <2>2. run' = [run EXCEPT !.left = rest, !.step = "judge"]
    BY <1>3, <2>1 DEF NextSurvivor
  <2> QED  BY <1>1, <2>1, <2>2 DEF Placements
<1>4. ASSUME NEW step \in {"judge", "resolve", "record", "conflict"}, run' = [run EXCEPT !.step = step]
      PROVE  /\ run' \in Placements /\ run'.at = "place" /\ run'.work = run.work
             /\ run'.left = run.left /\ run'.step = step
  BY <1>1, <1>4 DEF Placements
<1> QED  BY <1>2, <1>3, <1>4

(* What is known of the survivor that is placed.                           *)
LEMMA HeadFacts ==
    ASSUME TranscriptInv, run.at = "place", run.left # <<>>
    PROVE  LET h == Head(run.left) IN
           /\ h \in Current /\ h \in There /\ h \in Rows
           /\ rows[h].is = "pending" /\ rows[h].of = NoTarget /\ rows[h].attempts < MaxAttempts
           /\ \A m \in ToSet(merged) : m[1] # h
           /\ Distinct(Tail(run.left)) /\ Tail(run.left) \in Seq(Rows)
           /\ ToSet(run.left) = {h} \cup ToSet(Tail(run.left)) /\ h \notin ToSet(Tail(run.left))
<1> USE DEF TranscriptInv
<1>1. run.left \in Seq(Rows) /\ Distinct(run.left)
  BY PlaceRuns DEF TypeInv, PlaceInv
<1>2. PICK h : h = Head(run.left)
  OBVIOUS
<1>3. /\ Tail(run.left) \in Seq(Rows) /\ ToSet(run.left) = {h} \cup ToSet(Tail(run.left))
      /\ Distinct(Tail(run.left)) /\ h \notin ToSet(Tail(run.left))
  BY <1>1, <1>2, TailEntries
<1>4. h \in ToSet(run.left)
  BY <1>3
<1>5. rows[h].is = "pending" /\ h \in Current /\ \A m \in ToSet(merged) : m[1] # h
  BY <1>4 DEF PlaceInv
<1>6. h \in There /\ h \in Rows
  BY <1>5, CurrentThere DEF TypeInv
<1>7. rows[h].of = NoTarget /\ rows[h].attempts < MaxAttempts
  BY <1>5, <1>6 DEF TargetsKnown
<1> QED  BY <1>2, <1>3, <1>5, <1>6, <1>7

(* The disposition of one survivor is recorded.                            *)
LEMMA SurvivorRecorded ==
    ASSUME TranscriptInv, run.at = "place", run.left # <<>>, run' = NextSurvivor,
           UNCHANGED <<text, links, reviews, merged, kills>>,
           NEW h, h = Head(run.left),
           rows' \in [Rows -> Row], \A x \in Rows \ {h} : rows'[x] = rows[x],
           rows'[h].is = "duplicate" => \E b \in Blocks : rows'[h].of = Block(b),
           rows'[h].is # "duplicate" => rows'[h].of = NoTarget,
           rows'[h].is \in {"pending", "failed"} => rows'[h].attempts < MaxAttempts,
           rows'[h].is = "conflicted_pending" => HasReview(h),
           rows'[h].is # "superseded"
    PROVE  TranscriptInv'
<1> USE DEF TranscriptInv
<1>1. /\ h \in Current /\ h \in There /\ h \in Rows /\ rows[h].is = "pending" /\ rows[h].of = NoTarget
      /\ \A m \in ToSet(merged) : m[1] # h
      /\ Distinct(Tail(run.left)) /\ Tail(run.left) \in Seq(Rows)
      /\ ToSet(run.left) = {h} \cup ToSet(Tail(run.left)) /\ h \notin ToSet(Tail(run.left))
  BY HeadFacts
<1>2. /\ run' \in Placements /\ run'.at = "place" /\ run'.work = run.work
      /\ run'.left = Tail(run.left) /\ run'.step = "judge"
  BY PlaceRuns DEF TypeInv
<1>3. Current \subseteq There /\ There \subseteq Rows
  BY CurrentThere DEF TypeInv
<1>4. There' = There /\ Current' = Current /\ (\A x : Says(x)' = Says(x)) /\ (TextType' <=> TextType)
  BY SameText
<1>5. TypeInv'
  BY <1>2, <1>4 DEF TypeInv, RunType, Placements
<1>6. TargetsKnown'
  <2>1. \A v \in reviews' : v.existing \in Blocks
    BY DEF TargetsKnown
  <2> QED  BY <1>1, <1>3, <2>1, OneTarget
<1>7. WorkInv' /\ PrepassInv' /\ SettleInv'
  BY <1>2, <1>4 DEF WorkInv, PrepassInv, SettleInv
<1>8. PlaceInv'
  <2>1. ASSUME NEW r \in ToSet(Tail(run.left))
        PROVE  rows'[r].is = "pending" /\ r \in Current /\ \A m \in ToSet(merged) : m[1] # r
    <3>1. r \in ToSet(run.left) /\ r # h
      BY <1>1
    <3>2. rows[r].is = "pending" /\ r \in Current /\ \A m \in ToSet(merged) : m[1] # r
      BY <3>1 DEF PlaceInv
    <3> QED  BY <3>1, <3>2, <1>3
  <2>2. ToSet(run'.left) = ToSet(Tail(run.left)) /\ Distinct(run'.left)
    BY <1>1, <1>2
  <2> QED  BY <1>2, <1>4, <2>1, <2>2 DEF PlaceInv
<1>9. \A x, s \in Rows : rows'[x].of = Placeholder(s) => x # h /\ rows[x].of = Placeholder(s)
  BY TargetFacts
<1>10. MergedInv'
  <2>1. ASSUME NEW m \in ToSet(merged)
        PROVE  /\ m[1] \in Current /\ m[2] \in Current
               /\ rows'[m[1]].is = "duplicate" /\ ~Waits(m[2])'
               /\ rows'[m[1]].of = Placeholder(m[2]) \/ (rows'[m[1]].of = Block(m[2]) /\ <<m[2], m[2]>> \in links)
    <3>1. /\ m[1] \in Current /\ m[2] \in Current /\ rows[m[1]].is = "duplicate" /\ ~Waits(m[2])
          /\ rows[m[1]].of = Placeholder(m[2]) \/ (rows[m[1]].of = Block(m[2]) /\ <<m[2], m[2]>> \in links)
      BY DEF MergedInv
    <3>2. m[1] \in Rows \ {h} /\ m[2] \in Rows
      BY <1>1, <1>3, <3>1
    <3> QED  BY <3>1, <3>2, <1>9 DEF Waits
  <2> QED  BY <1>4, <2>1 DEF MergedInv
<1>11. ConflictInv'
  <2> SUFFICES ASSUME NEW r \in There, rows'[r].is = "conflicted_pending", Wanted(r)' PROVE HasReview(r)
    BY <1>4 DEF ConflictInv, HasReview
  <2>1. CASE r = h
    BY <2>1
  <2>2. CASE r # h
    <3>1. rows[r].is = "conflicted_pending"
      BY <2>2, <1>3
    <3>2. Wanted(r)
      BY <1>2, <1>3, <1>4, <1>9 DEF Wanted, Listed
    <3> QED  BY <3>1, <3>2 DEF ConflictInv
  <2> QED  BY <2>1, <2>2
<1>12. KeptInv'
  BY <1>1, <1>2, <1>3, <1>4, <1>9 DEF KeptInv
<1> QED  BY <1>5, <1>6, <1>7, <1>8, <1>10, <1>11, <1>12

(* A survivor that is irrelevant, fails, or is a duplicate of a block.     *)
LEMMA LeaveSurvivorStep ==
    ASSUME TranscriptInv, LeaveSurvivor
    PROVE  TranscriptInv'
<1>1. /\ run.at = "place" /\ run.left # <<>> /\ run' = NextSurvivor
      /\ UNCHANGED <<text, links, reviews, merged, kills>>
  BY DEF LeaveSurvivor, Judging, At
<1>2. PICK h : h = Head(run.left)
  OBVIOUS
<1>3. h \in Rows /\ rows \in [Rows -> Row] /\ rows[h].attempts < MaxAttempts /\ Blocks \subseteq Rows
  <2>1. Blocks \subseteq Rows
    BY DEF TranscriptInv, TypeInv, Blocks
  <2> QED  BY <1>1, <1>2, <2>1, HeadFacts DEF TranscriptInv, TypeInv
<1>4. PICK no \in BOOLEAN : no = FALSE
  OBVIOUS
<1>5. CASE rows' = Updated({h}, "irrelevant", NoTarget, no)
  <2>1. "irrelevant" \in Dispositions /\ NoTarget \in Targets
    BY DEF Dispositions, Targets
  <2>2. Becomes(h, "irrelevant", NoTarget)
    BY <1>3, <1>4, <1>5, <2>1, RowUpdated
  <2>3. /\ rows' \in [Rows -> Row] /\ \A x \in Rows \ {h} : rows'[x] = rows[x]
        /\ rows'[h].is = "irrelevant" /\ rows'[h].of = NoTarget
    BY <2>2 DEF Becomes
  <2> QED  BY <1>1, <1>2, <2>3, SurvivorRecorded
<1>6. CASE rows' = mark_failed({h})
  <2>1. PICK S : S = {h}
    OBVIOUS
  <2>2. S \subseteq Rows /\ (\A x \in S : rows[x].attempts < MaxAttempts) /\ rows' = mark_failed(S)
    BY <1>3, <1>6, <2>1
  <2>3. /\ rows' \in [Rows -> Row]
        /\ \A x \in Rows \ S : rows'[x] = rows[x]
        /\ \A x \in S : /\ rows'[x].is \in {"failed", "failed_final"} /\ rows'[x].of = NoTarget
                        /\ rows'[x].is = "failed" => rows'[x].attempts < MaxAttempts
    BY <1>3, <2>2, RowsFailed
  <2>4. h \in S /\ \A x \in Rows \ {h} : rows'[x] = rows[x]
    BY <2>1, <2>3
  <2>5. /\ rows'[h].is \in {"failed", "failed_final"} /\ rows'[h].of = NoTarget
        /\ rows'[h].is = "failed" => rows'[h].attempts < MaxAttempts
    BY <2>3, <2>4
  <2> QED  BY <1>1, <1>2, <2>3, <2>4, <2>5, SurvivorRecorded
<1>7. ASSUME NEW b \in Blocks, rows' = Updated({h}, "duplicate", Block(b), no) PROVE TranscriptInv'
  <2>1. "duplicate" \in Dispositions /\ Block(b) \in Targets
    BY <1>3 DEF Dispositions, Targets
  <2>2. Becomes(h, "duplicate", Block(b))
    BY <1>3, <1>4, <1>7, <2>1, RowUpdated
  <2>3. /\ rows' \in [Rows -> Row] /\ \A x \in Rows \ {h} : rows'[x] = rows[x]
        /\ rows'[h].is = "duplicate" /\ rows'[h].of = Block(b)
    BY <2>2 DEF Becomes
  <2> QED  BY <1>1, <1>2, <2>3, SurvivorRecorded
<1> QED  BY <1>2, <1>4, <1>5, <1>6, <1>7 DEF LeaveSurvivor

(* A survivor whose block was made is placed.                              *)
LEMMA RecordPlacedStep ==
    ASSUME TranscriptInv, RecordPlaced
    PROVE  TranscriptInv'
<1>1. /\ run.at = "place" /\ run.left # <<>> /\ run' = NextSurvivor
      /\ UNCHANGED <<text, links, reviews, merged, kills>>
  BY DEF RecordPlaced, At, TranscriptInv, PlaceInv
<1>2. PICK h : h = Head(run.left)
  OBVIOUS
<1>3. h \in Rows /\ rows \in [Rows -> Row]
  BY <1>1, <1>2, HeadFacts DEF TranscriptInv, TypeInv
<1>4. PICK no \in BOOLEAN : no = FALSE
  OBVIOUS
<1>5. rows' = Updated({h}, "placed", NoTarget, no)
  BY <1>2, <1>4 DEF RecordPlaced
<1>6. "placed" \in Dispositions /\ NoTarget \in Targets
  BY DEF Dispositions, Targets
<1>7. Becomes(h, "placed", NoTarget)
  BY <1>3, <1>4, <1>5, <1>6, RowUpdated
<1>8. /\ rows' \in [Rows -> Row] /\ \A x \in Rows \ {h} : rows'[x] = rows[x]
      /\ rows'[h].is = "placed" /\ rows'[h].of = NoTarget
  BY <1>7 DEF Becomes
<1> QED  BY <1>1, <1>2, <1>8, SurvivorRecorded

(* A survivor whose review row was made waits for the decision.            *)
LEMMA RecordConflictStep ==
    ASSUME TranscriptInv, RecordConflict
    PROVE  TranscriptInv'
<1>1. /\ run.at = "place" /\ run.left # <<>> /\ run' = NextSurvivor /\ HasReview(Head(run.left))
      /\ UNCHANGED <<text, links, reviews, merged, kills>>
  BY DEF RecordConflict, At, TranscriptInv, PlaceInv
<1>2. PICK h : h = Head(run.left)
  OBVIOUS
<1>3. h \in Rows /\ rows \in [Rows -> Row]
  BY <1>1, <1>2, HeadFacts DEF TranscriptInv, TypeInv
<1>4. PICK no \in BOOLEAN : no = FALSE
  OBVIOUS
<1>5. rows' = Updated({h}, "conflicted_pending", NoTarget, no)
  BY <1>2, <1>4 DEF RecordConflict
<1>6. "conflicted_pending" \in Dispositions /\ NoTarget \in Targets
  BY DEF Dispositions, Targets
<1>7. Becomes(h, "conflicted_pending", NoTarget)
  BY <1>3, <1>4, <1>5, <1>6, RowUpdated
<1>8. /\ rows' \in [Rows -> Row] /\ \A x \in Rows \ {h} : rows'[x] = rows[x]
      /\ rows'[h].is = "conflicted_pending" /\ rows'[h].of = NoTarget
  BY <1>7 DEF Becomes
<1>9. HasReview(h)
  BY <1>1, <1>2
<1> QED  BY <1>1, <1>2, <1>8, <1>9, SurvivorRecorded

(* Links are added: what rows and reviews name stays there.                *)
LEMMA CreateBlockStep ==
    ASSUME TranscriptInv, CreateBlock
    PROVE  TranscriptInv'
<1> USE DEF TranscriptInv
<1>1. PICK h : h = Head(run.left)
  OBVIOUS
<1>2. PICK new : new = <<h, h>>
  OBVIOUS
<1>3. /\ run.at = "place" /\ run.left # <<>> /\ run.step = "judge" /\ links' = links \cup {new}
      /\ run' = [run EXCEPT !.step = "resolve"] /\ UNCHANGED <<text, rows, reviews, merged, kills>>
  BY <1>1, <1>2 DEF CreateBlock, Judging, At
<1>4. h \in Rows
  BY <1>1, <1>3, HeadFacts
<1>5. /\ run' \in Placements /\ run'.at = "place" /\ run'.work = run.work
      /\ run'.left = run.left /\ run'.step = "resolve"
  BY <1>3, PlaceRuns DEF TypeInv
<1>6. There' = There /\ Current' = Current /\ (TextType' <=> TextType)
  BY <1>3, SameText
<1>7. links \subseteq links' /\ new \in links' /\ links' \in SUBSET (Rows \X Rows)
  BY <1>2, <1>3, <1>4 DEF TypeInv
<1>8. Blocks \subseteq Blocks'
  BY <1>7 DEF Blocks
<1>9. TypeInv'
  BY <1>3, <1>5, <1>6, <1>7 DEF TypeInv, RunType, Placements
<1>10. TargetsKnown'
  <2>1. \A v \in reviews' : v.existing \in Blocks'
    BY <1>3, <1>8 DEF TargetsKnown
  <2>2. ASSUME NEW r \in There
        PROVE  /\ rows[r].is = "duplicate" =>
                     (\E b \in Blocks' : rows[r].of = Block(b)) \/ (\E s \in There : rows[r].of = Placeholder(s))
               /\ rows[r].is # "duplicate" => rows[r].of = NoTarget
               /\ rows[r].is \in {"pending", "failed"} => rows[r].attempts < MaxAttempts
    BY <1>8 DEF TargetsKnown
  <2> QED  BY <1>3, <1>6, <2>1, <2>2 DEF TargetsKnown
<1>11. WorkInv' /\ PrepassInv' /\ SettleInv'
  BY <1>3, <1>5, <1>6 DEF WorkInv, PrepassInv, SettleInv
<1>12. PlaceInv'
  <2>1. <<Head(run'.left), Head(run'.left)>> \in links'
    BY <1>1, <1>2, <1>5, <1>7
  <2> QED  BY <1>3, <1>5, <1>6, <2>1 DEF PlaceInv
<1>13. MergedInv'
  BY <1>3, <1>5, <1>6, <1>7, SameRows DEF MergedInv
<1>14. ConflictInv'
  BY <1>3, <1>5, SameConflicts DEF Listed
<1>15. KeptInv'
  BY <1>3, <1>5, <1>6 DEF KeptInv
<1> QED  BY <1>9, <1>10, <1>11, <1>12, <1>13, <1>14, <1>15

(* Reviews are added: no conflict loses its review.                        *)
LEMMA CreateReviewStep ==
    ASSUME TranscriptInv, CreateReview
    PROVE  TranscriptInv'
<1> USE DEF TranscriptInv
<1>1. PICK h : h = Head(run.left)
  OBVIOUS
<1>2. PICK b \in Blocks \ {h} : reviews' = reviews \cup {[candidate |-> h, existing |-> b, chunks |-> {h}]}
  BY <1>1 DEF CreateReview
<1>3. PICK review : review = [candidate |-> h, existing |-> b, chunks |-> {h}]
  OBVIOUS
<1>4. /\ run.at = "place" /\ run.left # <<>> /\ run.step = "judge" /\ reviews' = reviews \cup {review}
      /\ run' = [run EXCEPT !.step = "conflict"] /\ UNCHANGED <<text, rows, links, merged, kills>>
  BY <1>2, <1>3 DEF CreateReview, Judging, At
<1>5. h \in Rows /\ b \in Blocks /\ Blocks \subseteq Rows
  <2>1. Blocks \subseteq Rows
    BY DEF TypeInv, Blocks
  <2> QED  BY <1>1, <1>2, <1>4, <2>1, HeadFacts
<1>6. /\ run' \in Placements /\ run'.at = "place" /\ run'.work = run.work
      /\ run'.left = run.left /\ run'.step = "conflict"
  BY <1>4, PlaceRuns DEF TypeInv
<1>7. There' = There /\ Current' = Current /\ (TextType' <=> TextType) /\ Blocks' = Blocks /\ \A x : Says(x)' = Says(x)
  BY <1>4, SameText, SameLinks
<1>8. review \in [candidate : Rows, existing : Rows, chunks : SUBSET Rows] /\ review.existing = b /\ h \in review.chunks
  BY <1>3, <1>5
<1>9. TypeInv'
  <2>1. reviews' \in SUBSET [candidate : Rows, existing : Rows, chunks : SUBSET Rows]
    BY <1>4, <1>8 DEF TypeInv
  <2> QED  BY <1>4, <1>6, <1>7, <2>1 DEF TypeInv, RunType, Placements
<1>10. TargetsKnown'
  BY <1>4, <1>5, <1>7, <1>8 DEF TargetsKnown
<1>11. WorkInv' /\ PrepassInv' /\ SettleInv'
  BY <1>4, <1>6, <1>7 DEF WorkInv, PrepassInv, SettleInv
<1>12. PlaceInv'
  <2>1. HasReview(Head(run.left))'
    BY <1>1, <1>4, <1>6, <1>8 DEF HasReview
  <2> QED  BY <1>4, <1>6, <1>7, <2>1 DEF PlaceInv
<1>13. MergedInv'
  BY <1>4, <1>6, <1>7, SameRows DEF MergedInv
<1>14. ConflictInv'
  <2>1. ASSUME NEW r \in There, rows[r].is = "conflicted_pending", Wanted(r)' PROVE HasReview(r)'
    <3>1. Wanted(r)
      BY <1>4, <1>6, <1>7, <2>1 DEF Wanted, Listed
    <3>2. HasReview(r)
      BY <2>1, <3>1 DEF ConflictInv
    <3> QED  BY <3>2, <1>4 DEF HasReview
  <2> QED  BY <1>4, <1>7, <2>1 DEF ConflictInv
<1>15. KeptInv'
  BY <1>4, <1>6, <1>7 DEF KeptInv
<1> QED  BY <1>9, <1>10, <1>11, <1>12, <1>13, <1>14, <1>15

(* A page that was changed by somebody else ends the placing.              *)
LEMMA PageConflictStep ==
    ASSUME TranscriptInv, PageConflict
    PROVE  TranscriptInv'
<1> USE DEF TranscriptInv
<1>1. /\ run.at = "place" /\ run' = [at |-> "settle", work |-> run.work]
      /\ UNCHANGED <<text, rows, links, reviews, merged, kills>>
  BY DEF PageConflict, Judging, At
<1>2. run.work \in Seq(Rows)
  BY <1>1, PlaceRuns DEF TypeInv
<1>3. run' \in Batches /\ run'.at = "settle"
  BY <1>1, <1>2 DEF Batches
<1>4. There' = There /\ Current' = Current /\ (TextType' <=> TextType)
  BY <1>1, SameText
<1>5. TypeInv'
  BY <1>1, <1>3, <1>4 DEF TypeInv, RunType, Batches
<1>6. TargetsKnown'
  BY <1>1, SameLedger
<1>7. WorkInv' /\ PrepassInv' /\ PlaceInv' /\ SettleInv'
  BY <1>3 DEF WorkInv, PrepassInv, PlaceInv, SettleInv
<1>8. MergedInv'
  BY <1>1, <1>3, <1>4, SameRows DEF MergedInv
<1>9. ConflictInv'
  BY <1>1, <1>3, SameConflicts DEF Listed
<1>10. KeptInv'
  BY <1>1, <1>3, <1>4 DEF KeptInv
<1> QED  BY <1>5, <1>6, <1>7, <1>8, <1>9, <1>10

Redirects(s, t) ==
    rows' = [x \in Rows |-> IF rows[x].of = Placeholder(s) THEN [rows[x] EXCEPT !.of = t] ELSE rows[x]]
Redirected(s, t) ==
    /\ rows' \in [Rows -> Row]
    /\ \A x \in Rows : rows'[x].is = rows[x].is /\ rows'[x].attempts = rows[x].attempts
    /\ \A x \in Rows : rows[x].of # Placeholder(s) => rows'[x] = rows[x]
    /\ \A x \in Rows : rows[x].of = Placeholder(s) => rows'[x].of = t

(* The rows that wait for a survivor get another target.                   *)
LEMMA RowsRedirected ==
    ASSUME NEW s, NEW t, Redirects(s, t), t \in Targets, rows \in [Rows -> Row]
    PROVE  Redirected(s, t)
<1>1. ASSUME NEW x \in Rows
      PROVE  /\ rows'[x] \in Row /\ rows'[x].is = rows[x].is /\ rows'[x].attempts = rows[x].attempts
             /\ rows[x].of # Placeholder(s) => rows'[x] = rows[x]
             /\ rows[x].of = Placeholder(s) => rows'[x].of = t
  <2>0. rows'[x] = IF rows[x].of = Placeholder(s) THEN [rows[x] EXCEPT !.of = t] ELSE rows[x]
    BY DEF Redirects
  <2>1. rows[x] \in Row
    OBVIOUS
  <2>2. CASE rows[x].of = Placeholder(s)
    <3>1. rows'[x] = [rows[x] EXCEPT !.of = t]
      BY <2>0, <2>2
    <3> QED  BY <2>1, <2>2, <3>1 DEF Row, Targets
  <2>3. CASE rows[x].of # Placeholder(s)
    BY <2>0, <2>1, <2>3
  <2> QED  BY <2>2, <2>3
<1>2. rows' = [x \in Rows |-> rows'[x]]
  BY DEF Redirects
<1> QED  BY <1>1, <1>2 DEF Redirected

(* What waits for a survivor that is placed gets its block.                *)
LEMMA ResolvePlacedStep ==
    ASSUME TranscriptInv, ResolvePlaced
    PROVE  TranscriptInv'
<1> USE DEF TranscriptInv
<1>1. PICK h : h = Head(run.left)
  OBVIOUS
<1>2. /\ run.at = "place" /\ run.step = "resolve" /\ run' = [run EXCEPT !.step = "record"]
      /\ UNCHANGED <<text, links, reviews, merged, kills>>
  BY DEF ResolvePlaced, At
<1>3. run.left # <<>> /\ <<h, h>> \in links
  BY <1>1, <1>2 DEF PlaceInv
<1>4. h \in Rows /\ h \in There /\ h \in Blocks /\ rows \in [Rows -> Row]
  BY <1>1, <1>2, <1>3, HeadFacts, LinkedBlocks DEF TypeInv
<1>5. /\ run' \in Placements /\ run'.at = "place" /\ run'.work = run.work
      /\ run'.left = run.left /\ run'.step = "record"
  BY <1>2, PlaceRuns DEF TypeInv
<1>6. There' = There /\ Current' = Current /\ (TextType' <=> TextType) /\ Blocks' = Blocks /\ \A x : Says(x)' = Says(x)
  BY <1>2, SameText, SameLinks
<1>7. /\ rows' \in [Rows -> Row]
      /\ \A x \in Rows : rows'[x].is = rows[x].is /\ rows'[x].attempts = rows[x].attempts
      /\ \A x \in Rows : rows[x].of # Placeholder(h) => rows'[x] = rows[x]
      /\ \A x \in Rows : rows[x].of = Placeholder(h) => rows'[x].of = Block(h)
  <2>1. Block(h) \in Targets
    BY <1>4 DEF Targets
  <2>2. Redirects(h, Block(h))
    BY <1>1 DEF ResolvePlaced, resolve_transcript_duplicate_placeholders, Redirects
  <2>3. Redirected(h, Block(h))
    BY <1>4, <2>1, <2>2, RowsRedirected
  <2> QED  BY <2>3 DEF Redirected
<1>8. Current \subseteq There /\ There \subseteq Rows
  BY CurrentThere DEF TypeInv
<1>9. \A x, s \in Rows : rows'[x].of = Placeholder(s) => rows[x].of = Placeholder(s)
  <2> SUFFICES ASSUME NEW x \in Rows, NEW s \in Rows, rows'[x].of = Placeholder(s) PROVE rows[x].of = Placeholder(s)
    OBVIOUS
  <2>1. rows[x].of # Placeholder(h)
    BY <1>7, TargetFacts
  <2> QED  BY <1>7, <2>1
<1>10. TypeInv'
  BY <1>2, <1>5, <1>6, <1>7 DEF TypeInv, RunType, Placements
<1>11. TargetsKnown'
  <2>1. ASSUME NEW r \in There
        PROVE  /\ rows'[r].is = "duplicate" =>
                     (\E b \in Blocks : rows'[r].of = Block(b)) \/ (\E s \in There : rows'[r].of = Placeholder(s))
               /\ rows'[r].is # "duplicate" => rows'[r].of = NoTarget
               /\ rows'[r].is \in {"pending", "failed"} => rows'[r].attempts < MaxAttempts
    <3>1. CASE rows[r].of = Placeholder(h)
      <4>1. rows[r].is = "duplicate"
        BY <3>1, TargetFacts DEF TargetsKnown
      <4> QED  BY <3>1, <4>1, <1>4, <1>7, <1>8
    <3>2. CASE rows[r].of # Placeholder(h)
      BY <3>2, <1>7, <1>8 DEF TargetsKnown
    <3> QED  BY <3>1, <3>2
  <2> QED  BY <1>2, <1>6, <2>1 DEF TargetsKnown
<1>12. WorkInv' /\ PrepassInv' /\ SettleInv'
  BY <1>2, <1>5, <1>6 DEF WorkInv, PrepassInv, SettleInv
<1>13. PlaceInv'
  BY <1>1, <1>2, <1>3, <1>5, <1>6, <1>7, <1>8 DEF PlaceInv
<1>14. MergedInv'
  <2>1. ASSUME NEW m \in ToSet(merged)
        PROVE  /\ m[1] \in Current /\ m[2] \in Current
               /\ rows'[m[1]].is = "duplicate" /\ ~Waits(m[2])'
               /\ rows'[m[1]].of = Placeholder(m[2]) \/ (rows'[m[1]].of = Block(m[2]) /\ <<m[2], m[2]>> \in links)
    <3>1. /\ m[1] \in Current /\ m[2] \in Current /\ rows[m[1]].is = "duplicate" /\ ~Waits(m[2])
          /\ rows[m[1]].of = Placeholder(m[2]) \/ (rows[m[1]].of = Block(m[2]) /\ <<m[2], m[2]>> \in links)
      BY <1>2 DEF MergedInv
    <3>2. m[1] \in Rows /\ m[2] \in Rows
      BY <1>8, <3>1
    <3>3. rows'[m[1]].is = "duplicate" /\ ~Waits(m[2])'
      BY <3>1, <3>2, <1>7, <1>9 DEF Waits
    <3>4. CASE rows[m[1]].of = Placeholder(h)
      <4>1. m[2] = h
        BY <3>1, <3>4, TargetFacts
      <4> QED  BY <3>1, <3>2, <3>3, <3>4, <4>1, <1>3, <1>7
    <3>5. CASE rows[m[1]].of # Placeholder(h)
      BY <3>1, <3>2, <3>3, <3>5, <1>7
    <3> QED  BY <3>4, <3>5
  <2> QED  BY <1>2, <1>6, <2>1 DEF MergedInv
<1>15. ConflictInv'
  <2> SUFFICES ASSUME NEW r \in There, rows'[r].is = "conflicted_pending", Wanted(r)' PROVE HasReview(r)'
    BY <1>6 DEF ConflictInv
  <2>1. rows[r].is = "conflicted_pending"
    BY <1>7, <1>8
  <2>2. Wanted(r)
    BY <1>5, <1>6, <1>8, <1>9 DEF Wanted, Listed
  <2>3. HasReview(r)
    BY <2>1, <2>2 DEF ConflictInv
  <2> QED  BY <2>3, <1>2 DEF HasReview
<1>16. KeptInv'
  BY <1>2, <1>5, <1>6, <1>7, <1>8, <1>9 DEF KeptInv
<1> QED  BY <1>10, <1>11, <1>12, <1>13, <1>14, <1>15, <1>16

--------------------------------------------------------------------------------
(* Settling the placeholders that are left.                                *)

(* The list has who waits, each with the row it waits for.                 *)
LEMMA ListOfWaiting ==
    ASSUME TypeInv, TargetsKnown, NEW waiting \in InOrder(Waiting),
           NEW todo, todo = [i \in DOMAIN waiting |-> <<waiting[i], rows[waiting[i]].of[2]>>]
    PROVE  /\ todo \in Seq(Rows \X Rows)
           /\ \A p \in ToSet(todo) : /\ p[1] \in There /\ p[2] \in There /\ p = <<p[1], p[2]>>
                                     /\ rows[p[1]].of = Placeholder(p[2])
           /\ \A r \in There, s \in Rows : rows[r].of = Placeholder(s) => <<r, s>> \in ToSet(todo)
<1>1. There \subseteq Rows
  BY CurrentThere DEF TypeInv
<1>2. waiting \in Seq(Waiting) /\ ToSet(waiting) = Waiting
  <2>1. Waiting \in SUBSET ((1..MaxVersions) \X (1..Segments))
    BY <1>1 DEF Waiting, Rows
  <2> QED  BY <2>1, OrderOf, TranscriptAssumption
<1>3. ASSUME NEW i \in DOMAIN waiting
      PROVE  \E s \in There : waiting[i] \in There /\ rows[waiting[i]].of = Placeholder(s) /\ todo[i] = <<waiting[i], s>>
  <2>1. waiting[i] \in Waiting
    BY <1>2
  <2>2. PICK s \in Rows : waiting[i] \in There /\ rows[waiting[i]].of = Placeholder(s)
    BY <2>1 DEF Waiting
  <2>3. s \in There
    BY <2>2, TargetFacts DEF TargetsKnown
  <2>4. todo[i] = <<waiting[i], s>>
    BY <2>2, TargetFacts
  <2> QED  BY <2>2, <2>3, <2>4
<1>4. DOMAIN todo = DOMAIN waiting /\ DOMAIN waiting = 1..Len(waiting) /\ Len(waiting) \in Nat
  BY <1>2
<1>5. todo \in Seq(Rows \X Rows)
  <2>1. \A i \in DOMAIN waiting : todo[i] \in Rows \X Rows
    BY <1>1, <1>3
  <2> QED  BY <1>4, <2>1
<1>6. ASSUME NEW p \in ToSet(todo)
      PROVE  p[1] \in There /\ p[2] \in There /\ p = <<p[1], p[2]>> /\ rows[p[1]].of = Placeholder(p[2])
  <2>1. PICK i \in DOMAIN waiting : p = todo[i]
    BY <1>4 DEF ToSet
  <2>2. PICK s \in There : waiting[i] \in There /\ rows[waiting[i]].of = Placeholder(s) /\ p = <<waiting[i], s>>
    BY <1>3, <2>1
  <2>3. p[1] = waiting[i] /\ p[2] = s
    BY <2>2
  <2> QED  BY <2>2, <2>3
<1>7. ASSUME NEW r \in There, NEW s \in Rows, rows[r].of = Placeholder(s) PROVE <<r, s>> \in ToSet(todo)
  <2>1. r \in ToSet(waiting)
    BY <1>2, <1>7 DEF Waiting
  <2>2. PICK i \in DOMAIN waiting : r = waiting[i]
    BY <2>1 DEF ToSet
  <2>3. todo[i] = <<r, s>>
    BY <1>7, <2>2, TargetFacts
  <2> QED  BY <1>4, <2>3 DEF ToSet
<1> QED  BY <1>5, <1>6, <1>7

(* Every merged row is on the list, or has the block of its survivor.      *)
LEMMA BeginSettleStep ==
    ASSUME TranscriptInv, BeginSettle
    PROVE  TranscriptInv'
<1> USE DEF TranscriptInv
<1>1. run.at \in {"settle", "place"} /\ UNCHANGED <<text, rows, links, reviews, merged, kills>>
  BY DEF BeginSettle, At
<1>2. PICK waiting \in InOrder(Waiting) :
          run' = [at |-> "settling", todo |-> [i \in DOMAIN waiting |-> <<waiting[i], rows[waiting[i]].of[2]>>]]
  BY DEF BeginSettle
<1>3. PICK todo : todo = [i \in DOMAIN waiting |-> <<waiting[i], rows[waiting[i]].of[2]>>]
  OBVIOUS
<1>4. /\ todo \in Seq(Rows \X Rows)
      /\ \A p \in ToSet(todo) : /\ p[1] \in There /\ p[2] \in There /\ p = <<p[1], p[2]>>
                                /\ rows[p[1]].of = Placeholder(p[2])
      /\ \A r \in There, s \in Rows : rows[r].of = Placeholder(s) => <<r, s>> \in ToSet(todo)
  BY <1>3, ListOfWaiting
<1>5. run' = [at |-> "settling", todo |-> todo]
  BY <1>2, <1>3
<1>6. run' \in Settlements /\ run'.at = "settling" /\ run'.todo = todo
  BY <1>4, <1>5 DEF Settlements
<1>7. There' = There /\ Current' = Current /\ (TextType' <=> TextType)
  BY <1>1, SameText
<1>8. Current \subseteq There /\ There \subseteq Rows
  BY CurrentThere DEF TypeInv
<1>9. TypeInv'
  BY <1>1, <1>6, <1>7 DEF TypeInv, RunType, Settlements
<1>10. TargetsKnown'
  BY <1>1, SameLedger
<1>11. WorkInv' /\ PrepassInv' /\ PlaceInv' /\ MergedInv'
  BY <1>6 DEF WorkInv, PrepassInv, PlaceInv, MergedInv
<1>12. SettleInv'
  <2>1. ASSUME NEW m \in ToSet(merged)
        PROVE  /\ m[1] \in Current /\ m[2] \in Current /\ ~Waits(m[2])
               /\ Shared(m[1], m[2]) \/ (rows[m[1]].of = Placeholder(m[2]) /\ m \in ToSet(todo))
               /\ \A p \in ToSet(todo) : p[1] # m[2] /\ (p[1] = m[1] => p = m)
    <3>1. /\ m[1] \in Current /\ m[2] \in Current
          /\ rows[m[1]].is = "duplicate" /\ ~Waits(m[2])
          /\ rows[m[1]].of = Placeholder(m[2]) \/ (rows[m[1]].of = Block(m[2]) /\ <<m[2], m[2]>> \in links)
      BY <1>1 DEF MergedInv
    <3>2. m = <<m[1], m[2]>>
      <4>1. m \in Rows \X Rows
        BY EntriesIn DEF TypeInv
      <4> QED  BY <4>1
    <3>3. m[1] \in There /\ m[2] \in Rows
      BY <1>8, <3>1
    <3>4. ASSUME rows[m[1]].of = Placeholder(m[2]) PROVE m \in ToSet(todo)
      BY <3>2, <3>3, <3>4, <1>4
    <3>5. ASSUME rows[m[1]].of = Block(m[2]) /\ <<m[2], m[2]>> \in links PROVE Shared(m[1], m[2])
      <4>1. m[2] \in Blocks /\ m[2] \in Held(m[2])
        BY <3>5, LinkedBlocks
      <4>2. ~Waits(m[1])
        BY <3>5, TargetFacts DEF Waits
      <4> QED  BY <3>1, <3>5, <4>1, <4>2 DEF Shared
    <3>6. ASSUME NEW p \in ToSet(todo) PROVE p[1] # m[2] /\ (p[1] = m[1] => p = m)
      <4>1. p[1] # m[2]
        BY <1>4, <1>8, <3>1 DEF Waits
      <4>2. ASSUME p[1] = m[1] PROVE p = m
        <5>1. rows[m[1]].of = Placeholder(p[2])
          BY <4>2, <1>4
        <5>2. p[2] = m[2]
          BY <5>1, <3>1, TargetFacts
        <5> QED  BY <4>2, <5>2, <3>2, <1>4
      <4> QED  BY <4>1, <4>2
    <3>7. Shared(m[1], m[2]) \/ (rows[m[1]].of = Placeholder(m[2]) /\ m \in ToSet(todo))
      BY <3>1, <3>4, <3>5
    <3> QED  BY <3>1, <3>6, <3>7
  <2>2. \A r, s : (Shared(r, s)' <=> Shared(r, s)) /\ (Waits(r)' <=> Waits(r))
    BY <1>1, SameLinks, SameRows DEF Shared
  <2> QED  BY <1>1, <1>4, <1>6, <1>7, <2>1, <2>2 DEF SettleInv
<1>13. ConflictInv'
  <2>1. ASSUME NEW r \in There, Listed(r)' PROVE Wanted(r)
    <3>1. PICK p \in ToSet(todo) : p[2] = r
      BY <2>1, <1>6 DEF Listed
    <3> QED  BY <3>1, <1>4 DEF Wanted
  <2> QED  BY <1>1, <2>1, SameConflicts
<1>14. KeptInv'
  <2>1. ASSUME kills = 0 PROVE ToSet(todo) \subseteq ToSet(merged)
    <3>1. ASSUME NEW p \in ToSet(todo) PROVE p \in ToSet(merged)
      <4>1. p[1] \in There /\ p[2] \in Rows /\ p = <<p[1], p[2]>> /\ rows[p[1]].of = Placeholder(p[2])
        BY <1>4, <1>8
      <4>2. <<p[1], p[2]>> \in ToSet(merged)
        BY <2>1, <4>1 DEF KeptInv
      <4> QED  BY <4>1, <4>2
    <3> QED  BY <3>1
  <2> QED  BY <1>1, <1>6, <1>7, <2>1 DEF KeptInv
<1> QED  BY <1>9, <1>10, <1>11, <1>12, <1>13, <1>14

(* What is known of the placeholder that is settled.                       *)
LEMMA SettleFacts ==
    ASSUME TranscriptInv, run.at = "settling", run.todo # <<>>, NEW h, h = Head(run.todo),
           run' = [run EXCEPT !.todo = Tail(@)]
    PROVE  /\ run' \in Settlements /\ run'.at = "settling" /\ run'.todo = Tail(run.todo)
           /\ ToSet(run.todo) = {h} \cup ToSet(run'.todo) /\ h \in ToSet(run.todo)
           /\ h[1] \in There /\ h[2] \in There /\ h = <<h[1], h[2]>> /\ There \subseteq Rows /\ Current \subseteq There
<1> USE DEF TranscriptInv
<1>1. run \in Settlements /\ run.todo \in Seq(Rows \X Rows)
  <2>1. run \in Settlements
    BY Stages DEF TypeInv
  <2> QED  BY <2>1 DEF Settlements
<1>2. PICK S : S = Rows \X Rows
  OBVIOUS
<1>3. PICK rest : rest = Tail(run.todo)
  OBVIOUS
<1>4. h \in S /\ rest \in Seq(S) /\ ToSet(run.todo) = {h} \cup ToSet(rest)
  BY <1>1, <1>2, <1>3, TailEntries
<1>5. run' = [run EXCEPT !.todo = rest]
  BY <1>3
<1>6. run' \in Settlements /\ run'.at = "settling" /\ run'.todo = rest
  BY <1>1, <1>2, <1>4, <1>5 DEF Settlements
<1>7. h[1] \in There /\ h[2] \in There
  BY <1>4 DEF SettleInv
<1>8. h = <<h[1], h[2]>>
  BY <1>2, <1>4
<1>9. There \subseteq Rows /\ Current \subseteq There
  BY CurrentThere DEF TypeInv
<1> QED  BY <1>3, <1>4, <1>6, <1>7, <1>8, <1>9

(* A survivor that has a target gives it to all that wait for it.          *)
LEMMA SettleByTarget ==
    ASSUME TranscriptInv, run.at = "settling", run.todo # <<>>, NEW h, h = Head(run.todo),
           run' = [run EXCEPT !.todo = Tail(@)],
           UNCHANGED <<text, links, reviews, merged, kills>>,
           NEW s, s = h[2], rows[s].is \in {"placed", "duplicate"}, NEW t \in TargetOf(s),
           rows' = [x \in Rows |-> IF rows[x].of = Placeholder(s) THEN [rows[x] EXCEPT !.of = t] ELSE rows[x]]
    PROVE  TranscriptInv'
<1> USE DEF TranscriptInv
<1>1. /\ run' \in Settlements /\ run'.at = "settling"
      /\ ToSet(run.todo) = {h} \cup ToSet(run'.todo) /\ h \in ToSet(run.todo)
      /\ h[1] \in There /\ s \in There /\ h = <<h[1], s>> /\ There \subseteq Rows /\ Current \subseteq There
  BY SettleFacts
<1>2. \/ \E b \in Blocks : t = Block(b) /\ (b \in Held(s) \/ rows[s].of = Block(b))
      \/ \E y \in There : t = Placeholder(y) /\ rows[s].of = Placeholder(y)
  <2>1. CASE rows[s].of # NoTarget
    <3>1. t = rows[s].of
      BY <2>1 DEF TargetOf
    <3>2. rows[s].is = "duplicate"
      BY <1>1, <2>1 DEF TargetsKnown
    <3>3. (\E b \in Blocks : rows[s].of = Block(b)) \/ (\E y \in There : rows[s].of = Placeholder(y))
      BY <1>1, <3>2 DEF TargetsKnown
    <3> QED  BY <3>1, <3>3
  <2>2. CASE rows[s].of = NoTarget
    <3>1. PICK b \in Held(s) : t = Block(b)
      BY <2>2 DEF TargetOf
    <3> QED  BY <3>1, LinkedBlocks
  <2> QED  BY <2>1, <2>2
<1>3. t \in Targets
  <2>1. Blocks \subseteq Rows
    BY DEF TypeInv, Blocks
  <2> QED  BY <1>1, <1>2, <2>1 DEF Targets
<1>4. /\ rows' \in [Rows -> Row]
      /\ \A x \in Rows : rows'[x].is = rows[x].is /\ rows'[x].attempts = rows[x].attempts
      /\ \A x \in Rows : rows[x].of # Placeholder(s) => rows'[x] = rows[x]
      /\ \A x \in Rows : rows[x].of = Placeholder(s) => rows'[x].of = t
  <2>1. rows \in [Rows -> Row]
    BY DEF TypeInv
  <2>2. Redirects(s, t)
    BY DEF Redirects
  <2>3. Redirected(s, t)
    BY <1>3, <2>1, <2>2, RowsRedirected
  <2> QED  BY <2>3 DEF Redirected
<1>5. There' = There /\ Current' = Current /\ (TextType' <=> TextType) /\ Blocks' = Blocks
      /\ (\A x : Says(x)' = Says(x)) /\ (\A x : Held(x)' = Held(x))
  BY SameText, SameLinks
<1>6. TypeInv'
  BY <1>1, <1>4, <1>5 DEF TypeInv, RunType, Settlements
<1>7. TargetsKnown'
  <2>1. ASSUME NEW r \in There
        PROVE  /\ rows'[r].is = "duplicate" =>
                     (\E b \in Blocks : rows'[r].of = Block(b)) \/ (\E y \in There : rows'[r].of = Placeholder(y))
               /\ rows'[r].is # "duplicate" => rows'[r].of = NoTarget
               /\ rows'[r].is \in {"pending", "failed"} => rows'[r].attempts < MaxAttempts
    <3>1. CASE rows[r].of = Placeholder(s)
      <4>1. rows[r].is = "duplicate"
        BY <3>1, TargetFacts DEF TargetsKnown
      <4>2. rows'[r].is = "duplicate" /\ rows'[r].of = t
        BY <3>1, <4>1, <1>1, <1>4
      <4> QED  BY <4>2, <1>2
    <3>2. CASE rows[r].of # Placeholder(s)
      BY <3>2, <1>1, <1>4 DEF TargetsKnown
    <3> QED  BY <3>1, <3>2
  <2>2. \A v \in reviews' : v.existing \in Blocks
    BY DEF TargetsKnown
  <2> QED  BY <1>5, <2>1, <2>2 DEF TargetsKnown
<1>8. WorkInv' /\ PrepassInv' /\ PlaceInv' /\ MergedInv'
  BY <1>1 DEF WorkInv, PrepassInv, PlaceInv, MergedInv
<1>9. SettleInv'
  <2>1. ASSUME NEW m \in ToSet(merged)
        PROVE  /\ m[1] \in Current /\ m[2] \in Current /\ ~Waits(m[2])'
               /\ Shared(m[1], m[2])' \/ (rows'[m[1]].of = Placeholder(m[2]) /\ m \in ToSet(run'.todo))
               /\ \A p \in ToSet(run'.todo) : p[1] # m[2] /\ (p[1] = m[1] => p = m)
    <3>1. /\ m[1] \in Current /\ m[2] \in Current /\ ~Waits(m[2])
          /\ Shared(m[1], m[2]) \/ (rows[m[1]].of = Placeholder(m[2]) /\ m \in ToSet(run.todo))
          /\ \A p \in ToSet(run.todo) : p[1] # m[2] /\ (p[1] = m[1] => p = m)
      BY DEF SettleInv
    <3>2. m[1] \in Rows /\ m[2] \in Rows /\ m[1] \in There /\ s \in Rows
      BY <1>1, <3>1
    <3>3. rows'[m[2]] = rows[m[2]]
      BY <3>1, <3>2, <1>4 DEF Waits
    <3>4. ~Waits(m[2])'
      BY <3>1, <3>3 DEF Waits
    <3>5. ASSUME rows[m[1]].of = Placeholder(s) PROVE Shared(m[1], m[2])'
      <4>1. rows[m[1]].of = Placeholder(m[2])
        BY <3>1, <3>2, <3>5 DEF Shared, Waits
      <4>2. m[2] = s
        BY <3>5, <4>1, TargetFacts
      <4>3. PICK b \in Blocks : t = Block(b) /\ (b \in Held(s) \/ rows[s].of = Block(b))
        BY <1>1, <1>2, <3>1, <4>2 DEF Waits
      <4>4. rows'[m[1]].of = Block(b) /\ ~Waits(m[1])'
        BY <3>2, <3>5, <4>3, <1>4, TargetFacts DEF Waits
      <4>5. rows'[m[1]].is = "duplicate"
        <5>1. rows[m[1]].is = "duplicate"
          BY <3>2, <3>5, TargetFacts DEF TargetsKnown
        <5> QED  BY <5>1, <3>2, <1>4
      <4> QED  BY <3>3, <4>2, <4>3, <4>4, <4>5, <1>5 DEF Shared
    <3>6. ASSUME rows[m[1]].of # Placeholder(s)
          PROVE  Shared(m[1], m[2])' \/ (rows'[m[1]].of = Placeholder(m[2]) /\ m \in ToSet(run'.todo))
      <4>1. rows'[m[1]] = rows[m[1]]
        BY <3>2, <3>6, <1>4
      <4>2. CASE Shared(m[1], m[2])
        BY <3>3, <4>1, <4>2, <1>5 DEF Shared, Waits
      <4>3. CASE rows[m[1]].of = Placeholder(m[2]) /\ m \in ToSet(run.todo)
        <5>1. m # h
          BY <3>6, <4>3
        <5> QED  BY <4>1, <4>3, <5>1, <1>1
      <4> QED  BY <3>1, <4>2, <4>3
    <3>7. \A p \in ToSet(run'.todo) : p[1] # m[2] /\ (p[1] = m[1] => p = m)
      BY <3>1, <1>1
    <3> QED  BY <3>1, <3>4, <3>5, <3>6, <3>7
  <2>2. \A p \in ToSet(run'.todo) : p[1] \in There /\ p[2] \in There
    BY <1>1 DEF SettleInv
  <2> QED  BY <1>5, <2>1, <2>2 DEF SettleInv
<1>10. ASSUME NEW x \in There, NEW r \in Rows, rows'[x].of = Placeholder(r)
       PROVE  rows[x].of = Placeholder(r) \/ rows[s].of = Placeholder(r)
  <2>1. CASE rows[x].of # Placeholder(s)
    BY <2>1, <1>1, <1>4, <1>10
  <2>2. CASE rows[x].of = Placeholder(s)
    <3>1. t = Placeholder(r)
      BY <2>2, <1>1, <1>4, <1>10
    <3> QED  BY <3>1, <1>2, TargetFacts
  <2> QED  BY <2>1, <2>2
<1>11. ConflictInv'
  <2> SUFFICES ASSUME NEW r \in There, rows'[r].is = "conflicted_pending", Wanted(r)' PROVE HasReview(r)'
    BY <1>5 DEF ConflictInv
  <2>1. rows[r].is = "conflicted_pending" /\ r \in Rows
    BY <1>1, <1>4
  <2>2. Listed(r)' => Listed(r)
    BY <1>1 DEF Listed
  <2>3. (\E x \in There : rows'[x].of = Placeholder(r)) => \E x \in There : rows[x].of = Placeholder(r)
    BY <1>1, <1>10, <2>1
  <2>4. Wanted(r)
    BY <1>5, <2>2, <2>3 DEF Wanted
  <2>5. HasReview(r)
    BY <2>1, <2>4 DEF ConflictInv
  <2> QED  BY <2>5 DEF HasReview
<1>12. KeptInv'
  <2> SUFFICES ASSUME kills = 0 PROVE KeptInv'
    BY DEF KeptInv
  <2>1. ~Waits(s)
    <3>1. h \in ToSet(merged)
      BY <1>1 DEF KeptInv
    <3> QED  BY <3>1 DEF SettleInv
  <2>2. ASSUME NEW x \in There, NEW r \in Rows, rows'[x].of = Placeholder(r) PROVE <<x, r>> \in ToSet(merged)
    <3>1. rows[x].of = Placeholder(r)
      BY <1>10, <2>1, <2>2 DEF Waits
    <3> QED  BY <3>1 DEF KeptInv
  <2>3. \A x \in Current : rows'[x].is # "superseded"
    BY <1>1, <1>4 DEF KeptInv
  <2>4. ToSet(run'.todo) \subseteq ToSet(merged)
    BY <1>1 DEF KeptInv
  <2> QED  BY <1>1, <1>5, <2>2, <2>3, <2>4 DEF KeptInv
<1> QED  BY <1>6, <1>7, <1>8, <1>9, <1>11, <1>12

SharesDisposition(r, s) ==
    /\ rows' = [rows EXCEPT ![r] = [is |-> rows[s].is, of |-> NoTarget, attempts |-> rows[s].attempts,
                                   intra |-> rows[s].is = "conflicted_pending"]]
    /\ reviews' = IF rows[s].is = "conflicted_pending" THEN {AddChunk(v, s, r) : v \in reviews} ELSE reviews

(* A survivor without a target gives its disposition to one that waits.    *)
LEMMA SettleByFate ==
    ASSUME TranscriptInv, run.at = "settling", run.todo # <<>>, NEW h, h = Head(run.todo),
           run' = [run EXCEPT !.todo = Tail(@)],
           UNCHANGED <<text, links, merged, kills>>,
           NEW r, r = h[1], NEW s, s = h[2], ~(rows[s].is \in {"placed", "duplicate"} /\ TargetOf(s) # {}),
           SharesDisposition(r, s)
    PROVE  TranscriptInv'
<1> USE DEF TranscriptInv
<1>1. /\ run' \in Settlements /\ run'.at = "settling"
      /\ ToSet(run.todo) = {h} \cup ToSet(run'.todo) /\ h \in ToSet(run.todo)
      /\ r \in There /\ s \in There /\ h = <<r, s>> /\ There \subseteq Rows /\ Current \subseteq There
  BY SettleFacts
<1>2. rows[s].is # "duplicate"
  <2> SUFFICES ASSUME rows[s].is = "duplicate" PROVE FALSE
    OBVIOUS
  <2>1. rows[s].of # NoTarget
    BY <1>1, TargetFacts DEF TargetsKnown
  <2>2. TargetOf(s) = {rows[s].of}
    BY <2>1 DEF TargetOf
  <2> QED  BY <2>2
<1>3. /\ rows' \in [Rows -> Row] /\ \A x \in Rows \ {r} : rows'[x] = rows[x]
      /\ rows'[r].is = rows[s].is /\ rows'[r].of = NoTarget /\ rows'[r].attempts = rows[s].attempts
  <2>1. rows \in [Rows -> Row] /\ r \in Rows /\ rows[s] \in Row
    BY <1>1 DEF TypeInv
  <2>2. PICK is, attempts : is = rows[s].is /\ attempts = rows[s].attempts
    OBVIOUS
  <2>2a. PICK intra \in BOOLEAN : intra = (rows[s].is = "conflicted_pending")
    OBVIOUS
  <2>3. PICK new : new = [is |-> is, of |-> NoTarget, attempts |-> attempts, intra |-> intra]
    OBVIOUS
  <2>4. new \in Row /\ new.is = is /\ new.of = NoTarget /\ new.attempts = attempts
    BY <2>1, <2>2, <2>3 DEF Row
  <2>5. rows' = [rows EXCEPT ![r] = new]
    BY <2>2, <2>2a, <2>3 DEF SharesDisposition
  <2>6. rows' \in [Rows -> Row] /\ rows'[r] = new /\ \A x \in Rows \ {r} : rows'[x] = rows[x]
    BY <2>1, <2>4, <2>5
  <2> QED  BY <2>2, <2>4, <2>6
<1>4. There' = There /\ Current' = Current /\ (TextType' <=> TextType) /\ Blocks' = Blocks
      /\ (\A x : Says(x)' = Says(x)) /\ (\A x : Held(x)' = Held(x))
  BY SameText, SameLinks
<1>5. \A v \in reviews : /\ AddChunk(v, s, r) \in [candidate : Rows, existing : Rows, chunks : SUBSET Rows]
                         /\ AddChunk(v, s, r).existing = v.existing
                         /\ v.chunks \subseteq AddChunk(v, s, r).chunks
                         /\ s \in v.chunks => r \in AddChunk(v, s, r).chunks
  <2> SUFFICES ASSUME NEW v \in reviews
               PROVE  /\ AddChunk(v, s, r) \in [candidate : Rows, existing : Rows, chunks : SUBSET Rows]
                      /\ AddChunk(v, s, r).existing = v.existing
                      /\ v.chunks \subseteq AddChunk(v, s, r).chunks
                      /\ s \in v.chunks => r \in AddChunk(v, s, r).chunks
    OBVIOUS
  <2>1. v \in [candidate : Rows, existing : Rows, chunks : SUBSET Rows] /\ r \in Rows
    BY <1>1 DEF TypeInv
  <2>2. CASE s \in v.chunks
    <3>1. PICK more : more = v.chunks \cup {r}
      OBVIOUS
    <3>2. AddChunk(v, s, r) = [v EXCEPT !.chunks = more]
      BY <2>1, <2>2, <3>1 DEF AddChunk
    <3>3. more \in SUBSET Rows /\ v.chunks \subseteq more /\ r \in more
      BY <2>1, <3>1
    <3> QED  BY <2>1, <3>2, <3>3
  <2>3. CASE s \notin v.chunks
    BY <2>1, <2>3 DEF AddChunk
  <2> QED  BY <2>2, <2>3
<1>6. /\ reviews' \in SUBSET [candidate : Rows, existing : Rows, chunks : SUBSET Rows]
      /\ \A v \in reviews' : \E w \in reviews : v.existing = w.existing
      /\ \A x : HasReview(x) => HasReview(x)'
      /\ rows[s].is = "conflicted_pending" /\ HasReview(s) => HasReview(r)'
  <2>1. CASE rows[s].is = "conflicted_pending"
    <3>1. reviews' = {AddChunk(v, s, r) : v \in reviews}
      BY <2>1 DEF SharesDisposition
    <3> QED  BY <1>5, <3>1 DEF HasReview
  <2>2. CASE rows[s].is # "conflicted_pending"
    <3>1. reviews' = reviews
      BY <2>2 DEF SharesDisposition
    <3> QED  BY <2>2, <3>1 DEF HasReview, TypeInv
  <2> QED  BY <2>1, <2>2
<1>7. TypeInv'
  BY <1>1, <1>3, <1>4, <1>6 DEF TypeInv, RunType, Settlements
<1>8. TargetsKnown'
  <2>1. \A v \in reviews' : v.existing \in Blocks
    BY <1>6 DEF TargetsKnown
  <2>2. rows'[r].is \in {"pending", "failed"} => rows'[r].attempts < MaxAttempts
    BY <1>1, <1>3 DEF TargetsKnown
  <2>3. \A x \in There \ {r} : rows'[x] = rows[x]
    BY <1>1, <1>3
  <2> QED  BY <1>1, <1>2, <1>3, <2>1, <2>2, <2>3, OneTarget
<1>9. WorkInv' /\ PrepassInv' /\ PlaceInv' /\ MergedInv'
  BY <1>1 DEF WorkInv, PrepassInv, PlaceInv, MergedInv
<1>10. \A x, y \in Rows : rows'[x].of = Placeholder(y) => rows[x].of = Placeholder(y)
  BY <1>3, TargetFacts
<1>11. SettleInv'
  <2>1. ASSUME NEW m \in ToSet(merged)
        PROVE  /\ m[1] \in Current /\ m[2] \in Current /\ ~Waits(m[2])'
               /\ Shared(m[1], m[2])' \/ (rows'[m[1]].of = Placeholder(m[2]) /\ m \in ToSet(run'.todo))
               /\ \A p \in ToSet(run'.todo) : p[1] # m[2] /\ (p[1] = m[1] => p = m)
    <3>1. /\ m[1] \in Current /\ m[2] \in Current /\ ~Waits(m[2])
          /\ Shared(m[1], m[2]) \/ (rows[m[1]].of = Placeholder(m[2]) /\ m \in ToSet(run.todo))
          /\ \A p \in ToSet(run.todo) : p[1] # m[2] /\ (p[1] = m[1] => p = m)
      BY DEF SettleInv
    <3>2. m[1] \in Rows /\ m[2] \in Rows
      BY <1>1, <3>1
    <3>3. m[2] # r /\ (r = m[1] => h = m)
      BY <1>1, <3>1
    <3>4. rows'[m[2]] = rows[m[2]]
      BY <3>2, <3>3, <1>3
    <3>5. ~Waits(m[2])'
      BY <3>1, <3>4 DEF Waits
    <3>6. ASSUME m[1] = r PROVE Shared(m[1], m[2])'
      <4>1. m[2] = s
        BY <3>3, <3>6, <1>1
      <4>2. rows'[m[1]].is = rows'[m[2]].is
        BY <3>4, <3>6, <4>1, <1>3
      <4>3. ~Waits(m[1])'
        <5>1. rows'[m[1]].of = NoTarget
          BY <3>6, <1>3
        <5>2. \A y : NoTarget # Placeholder(y)
          BY TargetFacts
        <5> QED  BY <5>1, <5>2 DEF Waits
      <4> QED  BY <4>2, <4>3 DEF Shared
    <3>7. ASSUME m[1] # r
          PROVE  Shared(m[1], m[2])' \/ (rows'[m[1]].of = Placeholder(m[2]) /\ m \in ToSet(run'.todo))
      <4>1. rows'[m[1]] = rows[m[1]]
        BY <3>2, <3>7, <1>3
      <4>2. CASE Shared(m[1], m[2])
        BY <3>4, <4>1, <4>2, <1>4 DEF Shared, Waits
      <4>3. CASE rows[m[1]].of = Placeholder(m[2]) /\ m \in ToSet(run.todo)
        <5>1. m # h
          BY <3>7, <1>1
        <5> QED  BY <4>1, <4>3, <5>1, <1>1
      <4> QED  BY <3>1, <4>2, <4>3
    <3>8. \A p \in ToSet(run'.todo) : p[1] # m[2] /\ (p[1] = m[1] => p = m)
      BY <3>1, <1>1
    <3> QED  BY <3>1, <3>5, <3>6, <3>7, <3>8
  <2>2. \A p \in ToSet(run'.todo) : p[1] \in There /\ p[2] \in There
    BY <1>1 DEF SettleInv
  <2> QED  BY <1>4, <2>1, <2>2 DEF SettleInv
<1>12. ConflictInv'
  <2> SUFFICES ASSUME NEW x \in There, rows'[x].is = "conflicted_pending", Wanted(x)' PROVE HasReview(x)'
    BY <1>4 DEF ConflictInv
  <2>1. CASE x = r
    <3>1. rows[s].is = "conflicted_pending"
      BY <2>1, <1>3
    <3>2. Wanted(s)
      BY <1>1 DEF Wanted, Listed
    <3>3. HasReview(s)
      BY <1>1, <3>1, <3>2 DEF ConflictInv
    <3> QED  BY <2>1, <3>1, <3>3, <1>6
  <2>2. CASE x # r
    <3>1. rows[x].is = "conflicted_pending" /\ x \in Rows
      BY <2>2, <1>1, <1>3
    <3>2. Listed(x)' => Listed(x)
      BY <1>1 DEF Listed
    <3>3. (\E y \in There : rows'[y].of = Placeholder(x)) => \E y \in There : rows[y].of = Placeholder(x)
      BY <3>1, <1>1, <1>10
    <3>4. Wanted(x)
      BY <1>4, <3>2, <3>3 DEF Wanted
    <3> QED  BY <3>1, <3>4, <1>6 DEF ConflictInv
  <2> QED  BY <2>1, <2>2
<1>13. KeptInv'
  <2> SUFFICES ASSUME kills = 0 PROVE KeptInv'
    BY DEF KeptInv
  <2>1. ASSUME NEW x \in Current PROVE rows'[x].is # "superseded"
    <3>1. CASE x = r
      <4>1. h \in ToSet(merged)
        BY <1>1 DEF KeptInv
      <4>2. s \in Current
        BY <1>1, <4>1 DEF SettleInv
      <4> QED  BY <3>1, <4>2, <1>3 DEF KeptInv
    <3>2. CASE x # r
      BY <3>2, <1>1, <1>3 DEF KeptInv
    <3> QED  BY <3>1, <3>2
  <2>2. \A x \in There, y \in Rows : rows'[x].of = Placeholder(y) => <<x, y>> \in ToSet(merged)
    BY <1>1, <1>10 DEF KeptInv
  <2>3. ToSet(run'.todo) \subseteq ToSet(merged)
    BY <1>1 DEF KeptInv
  <2> QED  BY <1>1, <1>4, <2>1, <2>2, <2>3 DEF KeptInv
<1> QED  BY <1>7, <1>8, <1>9, <1>11, <1>12, <1>13

(* A placeholder is settled in one of the two ways.                        *)
LEMMA SettleStep ==
    ASSUME TranscriptInv, settle_transcript_supersession
    PROVE  TranscriptInv'
<1>1. PICK h, r, s : h = Head(run.todo) /\ r = h[1] /\ s = h[2]
  OBVIOUS
<1>2. /\ run.at = "settling" /\ run.todo # <<>> /\ run' = [run EXCEPT !.todo = Tail(@)]
      /\ UNCHANGED <<text, links, merged, kills>>
  BY DEF settle_transcript_supersession, At
<1>3. CASE rows[s].is \in {"placed", "duplicate"} /\ TargetOf(s) # {}
  <2>1. PICK t \in TargetOf(s) :
            rows' = [x \in Rows |-> IF rows[x].of = Placeholder(s) THEN [rows[x] EXCEPT !.of = t] ELSE rows[x]]
    BY <1>1, <1>3 DEF settle_transcript_supersession
  <2>2. reviews' = reviews
    BY <1>1, <1>3 DEF settle_transcript_supersession
  <2> QED  BY <1>1, <1>2, <1>3, <2>1, <2>2, SettleByTarget
<1>4. CASE ~(rows[s].is \in {"placed", "duplicate"} /\ TargetOf(s) # {})
  <2>1. SharesDisposition(r, s)
    BY <1>1, <1>4 DEF settle_transcript_supersession, SharesDisposition
  <2> QED  BY <1>1, <1>2, <1>4, <2>1, SettleByFate
<1> QED  BY <1>3, <1>4


--------------------------------------------------------------------------------
(* Between two runs.                                                       *)

(* A linked block is the name of a row.                                    *)
LEMMA BlocksAreRows ==
    ASSUME links' \in SUBSET (Rows \X Rows), links \subseteq links'
    PROVE  /\ Blocks \subseteq Blocks' /\ Blocks' \subseteq Rows
           /\ \A c : Held(c)' \subseteq Blocks'
  BY DEF Blocks, Held

SettledByDecision(x) ==
    \/ rows'[x].is = "duplicate" /\ \E b \in Blocks' : rows'[x].of = Block(b)
    \/ rows'[x].is = "placed" /\ rows'[x].of = NoTarget

(* A decision settles the rows that wait for no other one.                 *)
LEMMA DecidedRows ==
    ASSUME TypeInv, TargetsKnown, NEW review \in reviews, NEW accept \in BOOLEAN, Decide(review, accept)
    PROVE  /\ rows' \in [Rows -> Row]
           /\ links' \in SUBSET (Rows \X Rows) /\ links \subseteq links'
           /\ \A x \in Rows :
                \/ SettledByDecision(x)
                \/ /\ rows'[x] = rows[x]
                   /\ rows[x].is = "conflicted_pending" /\ x \in review.chunks
                        => \E other \in reviews \ {review} : x \in other.chunks
<1>1. review \in [candidate : Rows, existing : Rows, chunks : SUBSET Rows] /\ review.existing \in Blocks
  BY DEF TypeInv, TargetsKnown
<1> DEFINE linked == links \cup IF accept THEN {<<review.candidate, c>> : c \in review.chunks} ELSE {}
           held(c) == {l[1] : l \in {l \in linked : l[2] = c}}
           waiting == UNION {other.chunks : other \in reviews \ {review}}
           Fate(c) == IF held(c) = {} THEN [rows[c] EXCEPT !.is = "duplicate", !.of = Block(review.existing), !.intra = FALSE]
                      ELSE IF rows[c].intra THEN [rows[c] EXCEPT !.is = "duplicate", !.of = Block(CHOOSE b \in held(c) : TRUE)]
                      ELSE [rows[c] EXCEPT !.is = "placed", !.of = NoTarget]
<1>2. /\ links' = linked
      /\ rows' = [r \in Rows |-> IF r \in review.chunks \ waiting /\ rows[r].is = "conflicted_pending"
                                THEN Fate(r) ELSE rows[r]]
  BY DEF Decide
<1>3. links' = linked /\ \A c : held(c) = Held(c)'
  BY <1>2 DEF Held
<1>4. linked \in SUBSET (Rows \X Rows) /\ links \subseteq linked
  <2>1. review.candidate \in Rows /\ review.chunks \subseteq Rows
    BY <1>1
  <2>2. {<<review.candidate, c>> : c \in review.chunks} \subseteq Rows \X Rows
    BY <2>1
  <2>3. links \subseteq Rows \X Rows
    BY DEF TypeInv
  <2> QED  BY <2>2, <2>3
<1>5. Blocks \subseteq Blocks' /\ Blocks' \subseteq Rows /\ \A c : Held(c)' \subseteq Blocks'
  BY <1>3, <1>4, BlocksAreRows
<1> HIDE DEF linked, held
<1>7. ASSUME NEW x \in Rows, x \in review.chunks \ waiting, rows[x].is = "conflicted_pending"
      PROVE  rows'[x] \in Row /\ SettledByDecision(x)
  <2>1. rows[x] \in Row /\ rows'[x] = Fate(x)
    BY <1>2, <1>7 DEF TypeInv
  <2> HIDE DEF waiting
  <2>2. CASE Held(x)' = {}
    <3>1. rows'[x] = [rows[x] EXCEPT !.is = "duplicate", !.of = Block(review.existing), !.intra = FALSE]
      BY <1>3, <2>1, <2>2
    <3>2. review.existing \in Rows /\ review.existing \in Blocks'
      BY <1>1, <1>5
    <3>2a. PICK of \in Targets : of = Block(review.existing)
      BY <3>2 DEF Targets
    <3>3. rows'[x] \in Row /\ rows'[x].is = "duplicate" /\ rows'[x].of = of
      BY <2>1, <3>1, <3>2a DEF Row, Dispositions, Targets
    <3> QED  BY <3>2, <3>2a, <3>3 DEF SettledByDecision
  <2>3. CASE Held(x)' # {} /\ rows[x].intra
    <3>1. PICK b : b = CHOOSE e \in Held(x)' : TRUE
      OBVIOUS
    <3>2. b \in Blocks' /\ b \in Rows
      BY <1>5, <2>3, <3>1
    <3>3. rows'[x] = [rows[x] EXCEPT !.is = "duplicate", !.of = Block(b)]
      BY <1>3, <2>1, <2>3, <3>1
    <3>3a. PICK of \in Targets : of = Block(b)
      BY <3>2 DEF Targets
    <3>4. rows'[x] \in Row /\ rows'[x].is = "duplicate" /\ rows'[x].of = of
      BY <2>1, <3>3, <3>3a DEF Row, Dispositions, Targets
    <3> QED  BY <3>2, <3>3a, <3>4 DEF SettledByDecision
  <2>4. CASE Held(x)' # {} /\ ~rows[x].intra
    <3>1. rows'[x] = [rows[x] EXCEPT !.is = "placed", !.of = NoTarget]
      BY <1>3, <2>1, <2>4
    <3>2. rows'[x] \in Row /\ rows'[x].is = "placed" /\ rows'[x].of = NoTarget
      BY <2>1, <3>1 DEF Row, Dispositions
    <3> QED  BY <3>2 DEF SettledByDecision
  <2> QED  BY <2>2, <2>3, <2>4
<1>8. ASSUME NEW x \in Rows, ~(x \in review.chunks \ waiting /\ rows[x].is = "conflicted_pending")
      PROVE  /\ rows'[x] = rows[x]
             /\ rows[x].is = "conflicted_pending" /\ x \in review.chunks
                  => \E other \in reviews \ {review} : x \in other.chunks
  BY <1>2, <1>8
<1>9. \A x \in Rows : rows'[x] \in Row
  <2> HIDE DEF waiting
  <2> SUFFICES ASSUME NEW x \in Rows PROVE rows'[x] \in Row
    OBVIOUS
  <2>1. CASE x \in review.chunks \ waiting /\ rows[x].is = "conflicted_pending"
    BY <1>7, <2>1
  <2>2. CASE ~(x \in review.chunks \ waiting /\ rows[x].is = "conflicted_pending")
    BY <1>8, <2>2 DEF TypeInv
  <2> QED  BY <2>1, <2>2
<1>10. rows' = [x \in Rows |-> rows'[x]]
  BY <1>2
<1> HIDE DEF waiting
<1>11. rows' \in [Rows -> Row]
  BY <1>9, <1>10
<1> QED  BY <1>3, <1>4, <1>7, <1>8, <1>11

(* A decision leaves the conflicts that wait for another one their review. *)
LEMMA DecideStep ==
    ASSUME TranscriptInv, NEW review \in reviews, NEW accept \in BOOLEAN, Decide(review, accept)
    PROVE  TranscriptInv'
<1> USE DEF TranscriptInv
<1>1. /\ run.at = "idle" /\ run'.at = "idle" /\ reviews' = reviews \ {review}
      /\ UNCHANGED <<text, run, merged, kills>>
  BY DEF Decide, At
<1>2. /\ rows' \in [Rows -> Row]
      /\ links' \in SUBSET (Rows \X Rows) /\ links \subseteq links'
      /\ \A x \in Rows :
           \/ SettledByDecision(x)
           \/ /\ rows'[x] = rows[x]
              /\ rows[x].is = "conflicted_pending" /\ x \in review.chunks
                   => \E other \in reviews \ {review} : x \in other.chunks
  BY DecidedRows
<1>3. /\ There' = There /\ Current' = Current /\ (TextType' <=> TextType) /\ (\A x : Says(x)' = Says(x))
      /\ There \subseteq Rows /\ Current \subseteq There
  BY <1>1, SameText, CurrentThere DEF TypeInv
<1>4. Blocks \subseteq Blocks'
  BY <1>2, BlocksAreRows
<1>5. TypeInv'
  <2>1. run = NoRun
    BY <1>1 DEF TypeInv, RunType, PrepassType, Batches, Placements, Settlements, NoRun
  <2>2. RunType'
    BY <1>1, <2>1 DEF RunType
  <2> QED  BY <1>1, <1>2, <1>3, <2>2 DEF TypeInv
<1>6. \A x \in Rows : rows'[x] = rows[x] \/ SettledByDecision(x)
  BY <1>2
<1>7. TargetsKnown'
  <2> SUFFICES ASSUME NEW x \in There
               PROVE  /\ rows'[x].is = "duplicate" =>
                          (\E b \in Blocks' : rows'[x].of = Block(b)) \/ (\E s \in There : rows'[x].of = Placeholder(s))
                      /\ rows'[x].is # "duplicate" => rows'[x].of = NoTarget
                      /\ rows'[x].is \in {"pending", "failed"} => rows'[x].attempts < MaxAttempts
    BY <1>1, <1>3, <1>4 DEF TargetsKnown
  <2>1. CASE SettledByDecision(x)
    BY <2>1 DEF SettledByDecision
  <2>2. CASE rows'[x] = rows[x]
    BY <2>2, <1>4 DEF TargetsKnown
  <2> QED  BY <2>1, <2>2, <1>3, <1>6
<1>8. WorkInv' /\ PrepassInv' /\ PlaceInv' /\ MergedInv' /\ SettleInv'
  BY <1>1 DEF WorkInv, PrepassInv, PlaceInv, MergedInv, SettleInv
<1>9. ASSUME NEW x \in There, NEW y, rows'[x].of = Placeholder(y) PROVE rows[x].of = Placeholder(y)
  <2>1. ~SettledByDecision(x)
    BY <1>9, TargetFacts DEF SettledByDecision
  <2> QED  BY <1>3, <1>6, <1>9, <2>1
<1>10. ConflictInv'
  <2> SUFFICES ASSUME NEW x \in There, rows'[x].is = "conflicted_pending", Wanted(x)' PROVE HasReview(x)'
    BY <1>3 DEF ConflictInv
  <2>1. ~SettledByDecision(x)
    BY DEF SettledByDecision
  <2>2. rows[x].is = "conflicted_pending" /\ (x \in review.chunks => \E other \in reviews \ {review} : x \in other.chunks)
    BY <2>1, <1>2, <1>3
  <2>3. Wanted(x)
    <3>1. ~Listed(x)'
      BY <1>1 DEF Listed
    <3>2. (\E y \in There : rows'[y].of = Placeholder(x)) => \E y \in There : rows[y].of = Placeholder(x)
      BY <1>9
    <3> QED  BY <1>3, <3>1, <3>2 DEF Wanted
  <2>4. HasReview(x)
    BY <2>2, <2>3 DEF ConflictInv
  <2> QED  BY <1>1, <2>2, <2>4 DEF HasReview
<1>11. KeptInv'
  <2> SUFFICES ASSUME kills = 0 PROVE KeptInv'
    BY <1>1 DEF KeptInv
  <2>1. \A x \in Current : rows'[x].is # "superseded"
    BY <1>3, <1>6 DEF KeptInv, SettledByDecision
  <2>2. \A x \in There, y \in Rows : rows'[x].of # Placeholder(y)
    BY <1>1, <1>9 DEF KeptInv, Waits
  <2> QED  BY <1>1, <1>3, <2>1, <2>2 DEF KeptInv, Waits
<1> QED  BY <1>5, <1>7, <1>8, <1>10, <1>11

(* The new version has rows of its own, and what the others say stays.     *)
LEMMA IndexedText ==
    ASSUME TextType, NEW t \in SeqOf(Texts, LaterSegments), t # <<>>, Version < MaxVersions, text' = Append(text, t)
    PROVE  /\ TextType' /\ Version' = Version + 1 /\ Len(t) \in 1..Segments /\ text'[Version + 1] = t
           /\ There' = There \cup Current' /\ Current' \cap There = {}
           /\ Current' = {<<Version + 1, i>> : i \in 1..Len(t)}
           /\ \A x \in There : Says(x)' = Says(x) /\ x[1] \in 1..Version
           /\ \A x \in Current' : Says(x)' = t[x[2]]
<1>1. t \in Seq(Texts) /\ Len(t) \in 0..LaterSegments
  BY BoundedText, TranscriptAssumption
<1>2. Len(t) \in 1..Segments
  BY <1>1, TranscriptAssumption
<1>3. text \in Seq(Seq(Texts)) /\ Version \in 1..MaxVersions /\ Version \in Nat /\ MaxVersions \in Nat
  BY TranscriptAssumption DEF TextType
<1>4. /\ text' \in Seq(Seq(Texts)) /\ Len(text') = Version + 1 /\ text'[Version + 1] = t
      /\ \A v \in 1..Version : text'[v] = text[v]
  BY <1>1, <1>3 DEF Version
<1>5. Version' = Version + 1 /\ Version' \in 1..MaxVersions
  BY <1>3, <1>4 DEF Version
<1>6. \A v \in 1..Version + 1 : v \in 1..Version \/ v = Version + 1
  BY <1>3
<1>7. TextType'
  BY <1>2, <1>4, <1>5, <1>6 DEF TextType
<1>8. Current' = {<<Version + 1, i>> : i \in 1..Len(t)}
  BY <1>4, <1>5 DEF Current, RowsOf
<1>9. \A v \in 1..Version : RowsOf(v)' = RowsOf(v)
  BY <1>4 DEF RowsOf
<1>10. There' = There \cup Current'
  <2>1. 1..Version' = 1..Version \cup {Version + 1} /\ 1..Version \subseteq 1..Version'
    BY <1>3, <1>5
  <2>2. There' = UNION {RowsOf(v)' : v \in 1..Version'}
    BY DEF There, RowsOf
  <2>3. PICK n : n = Version + 1
    OBVIOUS
  <2>3a. Current' = RowsOf(n)'
    BY <1>5, <2>3 DEF Current, RowsOf
  <2>4. \A x : x \in There' <=> \E v \in 1..Version' : x \in RowsOf(v)'
    BY <2>2
  <2>5. \A x : x \in There <=> \E v \in 1..Version : x \in RowsOf(v)
    BY DEF There
  <2>6. \A x : x \in There' <=> (x \in There \/ x \in Current')
    BY <2>1, <2>3, <2>3a, <2>4, <2>5, <1>9
  <2> QED  BY <2>6
<1>11. \A x \in There : x[1] \in 1..Version
  BY DEF There, RowsOf
<1>12. \A x \in There : Says(x)' = Says(x)
  BY <1>4, <1>11 DEF Says
<1>13. Current' \cap There = {}
  <2>1. Version + 1 \notin 1..Version
    BY <1>3
  <2>2. \A x \in Current' : x[1] = Version + 1
    BY <1>8
  <2> QED  BY <2>1, <2>2, <1>11
<1>14. \A x \in Current' : Says(x)' = t[x[2]]
  <2> SUFFICES ASSUME NEW x \in Current' PROVE Says(x)' = t[x[2]]
    OBVIOUS
  <2>1. x[1] = Version + 1
    BY <1>8
  <2>2. text'[x[1]] = t
    BY <1>4, <2>1
  <2> QED  BY <2>2 DEF Says
<1> QED  BY <1>2, <1>4, <1>5, <1>7, <1>8, <1>10, <1>11, <1>12, <1>13, <1>14

Copied(x) == \E p \in There :
    rows'[x] = rows[p] /\ rows[p].is # "superseded" /\ p[1] < x[1] /\ Says(p)' = Says(x)'
GivenUp(x) == rows'[x].is = "superseded" /\ rows'[x].of = NoTarget

(* A new row is fresh or a copy of one of its text; an old one stays, or   *)
(* is superseded with what it says.                                        *)
LEMMA IndexedRows ==
    ASSUME TypeInv, Index
    PROVE  /\ TextType' /\ rows' \in [Rows -> Row]
           /\ links' \in SUBSET (Rows \X Rows) /\ links \subseteq links'
           /\ There' = There \cup Current' /\ Current' \cap There = {} /\ There' \subseteq Rows
           /\ \A x \in There : Says(x)' = Says(x)
           /\ \A x \in Current' : rows'[x] = Fresh \/ Copied(x)
           /\ \A x \in There : rows'[x] = rows[x] \/ GivenUp(x)
<1>1. PICK t \in SeqOf(Texts, LaterSegments) : \E prior \in [1..Len(t) -> There \cup {NoTarget}] :
          /\ t # <<>>
          /\ \A i \in 1..Len(t) : IF Priors(i, t) = {} THEN prior[i] = NoTarget ELSE prior[i] \in BestPriors(i, t)
          /\ text' = Append(text, t)
          /\ rows' = [r \in Rows |->
                        IF r[1] = Version + 1 /\ r[2] <= Len(t)
                        THEN IF prior[r[2]] = NoTarget THEN Fresh ELSE rows[prior[r[2]]]
                        ELSE IF r \in There /\ \A i \in 1..Len(t) : t[i] # Says(r)
                        THEN [rows[r] EXCEPT !.is = "superseded", !.of = NoTarget, !.intra = FALSE]
                        ELSE rows[r]]
          /\ links' = links \cup UNION {{<<b, <<Version + 1, i>>>> : b \in Held(prior[i])} : i \in 1..Len(t)}
  BY DEF Index
<1>2. PICK prior \in [1..Len(t) -> There \cup {NoTarget}] :
          /\ t # <<>>
          /\ \A i \in 1..Len(t) : IF Priors(i, t) = {} THEN prior[i] = NoTarget ELSE prior[i] \in BestPriors(i, t)
          /\ text' = Append(text, t)
          /\ rows' = [r \in Rows |->
                        IF r[1] = Version + 1 /\ r[2] <= Len(t)
                        THEN IF prior[r[2]] = NoTarget THEN Fresh ELSE rows[prior[r[2]]]
                        ELSE IF r \in There /\ \A i \in 1..Len(t) : t[i] # Says(r)
                        THEN [rows[r] EXCEPT !.is = "superseded", !.of = NoTarget, !.intra = FALSE]
                        ELSE rows[r]]
          /\ links' = links \cup UNION {{<<b, <<Version + 1, i>>>> : b \in Held(prior[i])} : i \in 1..Len(t)}
  BY <1>1
<1>3. Version < MaxVersions
  BY DEF Index
<1>4. /\ TextType' /\ Version' = Version + 1 /\ Len(t) \in 1..Segments
      /\ There' = There \cup Current' /\ Current' \cap There = {}
      /\ Current' = {<<Version + 1, i>> : i \in 1..Len(t)}
      /\ \A x \in There : Says(x)' = Says(x) /\ x[1] \in 1..Version
      /\ \A x \in Current' : Says(x)' = t[x[2]]
  BY <1>2, <1>3, IndexedText DEF TypeInv
<1>5. There \subseteq Rows /\ Current' \subseteq Rows
  <2>1. There \subseteq Rows
    BY CurrentThere DEF TypeInv
  <2>2. Version + 1 \in 1..MaxVersions
    BY <1>4 DEF TextType
  <2>3. \A i \in 1..Len(t) : i \in 1..Segments
    BY <1>4, TranscriptAssumption
  <2> QED  BY <2>1, <2>2, <2>3, <1>4 DEF Rows
<1>6. ASSUME NEW i \in 1..Len(t), prior[i] # NoTarget
      PROVE  prior[i] \in There /\ rows[prior[i]].is # "superseded" /\ Says(prior[i]) = t[i]
  <2>1. prior[i] \in BestPriors(i, t)
    BY <1>2, <1>6
  <2>2. prior[i] \in Priors(i, t)
    BY <2>1 DEF BestPriors
  <2> QED  BY <2>2 DEF Priors
<1>7. ASSUME NEW x \in Current' PROVE rows'[x] = Fresh \/ Copied(x)
  <2>1. PICK i \in 1..Len(t) : x = <<Version + 1, i>>
    BY <1>4
  <2>2. x[1] = Version + 1 /\ x[2] = i /\ i <= Len(t) /\ x \in Rows
    BY <2>1, <1>4, <1>5
  <2>3. rows'[x] = IF prior[i] = NoTarget THEN Fresh ELSE rows[prior[i]]
    BY <1>2, <2>2
  <2>4. ASSUME prior[i] # NoTarget PROVE Copied(x)
    <3>1. PICK p \in There : p = prior[i] /\ rows[p].is # "superseded" /\ Says(p) = t[i]
      BY <1>6, <2>4
    <3>2. p[1] < x[1]
      <4>1. p[1] \in 1..Version /\ Version \in Nat
        BY <1>4 DEF TypeInv, TextType
      <4> QED  BY <2>2, <4>1
    <3>3. rows'[x] = rows[p]
      BY <2>3, <2>4, <3>1
    <3>4. Says(x)' = Says(p)'
      BY <1>4, <2>2, <3>1
    <3> QED  BY <3>1, <3>2, <3>3, <3>4 DEF Copied
  <2> QED  BY <2>3, <2>4
<1>8. ASSUME NEW x \in Rows, x \notin Current'
      PROVE  rows'[x] = rows[x] \/ rows'[x] = [rows[x] EXCEPT !.is = "superseded", !.of = NoTarget, !.intra = FALSE]
  <2>1. ~(x[1] = Version + 1 /\ x[2] <= Len(t))
    <3> SUFFICES ASSUME x[1] = Version + 1, x[2] <= Len(t) PROVE FALSE
      OBVIOUS
    <3>1. x = <<x[1], x[2]>> /\ x[2] \in 1..Segments
      BY DEF Rows
    <3>2. x[2] \in 1..Len(t)
      BY <1>4, <3>1, TranscriptAssumption
    <3> QED  BY <1>4, <1>8, <3>1, <3>2
  <2>2. rows'[x] = IF x \in There /\ \A i \in 1..Len(t) : t[i] # Says(x)
                   THEN [rows[x] EXCEPT !.is = "superseded", !.of = NoTarget, !.intra = FALSE]
                   ELSE rows[x]
    BY <1>2, <2>1
  <2> QED  BY <2>2
<1>9. ASSUME NEW x \in Rows, rows'[x] = [rows[x] EXCEPT !.is = "superseded", !.of = NoTarget, !.intra = FALSE]
      PROVE  rows'[x] \in Row /\ GivenUp(x)
  <2>1. rows[x] \in Row
    BY DEF TypeInv
  <2>2. NoTarget \in Targets
    BY DEF Targets
  <2>3. rows'[x] \in Row /\ rows'[x].is = "superseded" /\ rows'[x].of = NoTarget
    BY <2>1, <2>2, <1>9 DEF Row, Targets, Dispositions
  <2> QED  BY <2>3 DEF GivenUp
<1>10. \A x \in There : rows'[x] = rows[x] \/ GivenUp(x)
  BY <1>4, <1>5, <1>8, <1>9
<1>11. rows' \in [Rows -> Row]
  <2>1. Fresh \in Row
    BY TranscriptAssumption DEF Fresh, Row, Dispositions
  <2>2. ASSUME NEW x \in Rows PROVE rows'[x] \in Row
    <3>1. CASE x \in Current'
      <4>1. \A p \in There : rows[p] \in Row
        BY <1>5 DEF TypeInv
      <4> QED  BY <1>7, <2>1, <3>1, <4>1 DEF Copied
    <3>2. CASE x \notin Current'
      <4>1. rows[x] \in Row
        BY DEF TypeInv
      <4> QED  BY <1>8, <1>9, <3>2, <4>1
    <3> QED  BY <3>1, <3>2
  <2>3. rows' = [x \in Rows |-> rows'[x]]
    BY <1>2
  <2> QED  BY <2>2, <2>3
<1>12. links' \in SUBSET (Rows \X Rows) /\ links \subseteq links'
  <2>1. links \subseteq Rows \X Rows
    BY DEF TypeInv
  <2>2. \A x : Held(x) \subseteq Rows
    BY <2>1 DEF Held
  <2>3. ASSUME NEW i \in 1..Len(t) PROVE {<<b, <<Version + 1, i>>>> : b \in Held(prior[i])} \subseteq Rows \X Rows
    <3>1. <<Version + 1, i>> \in Rows
      BY <1>4, <1>5
    <3> QED  BY <2>2, <3>1
  <2>4. PICK more : more = UNION {{<<b, <<Version + 1, i>>>> : b \in Held(prior[i])} : i \in 1..Len(t)}
    OBVIOUS
  <2>5. more \subseteq Rows \X Rows
    BY <2>3, <2>4
  <2>6. links' = links \cup more
    BY <1>2, <2>4
  <2> QED  BY <2>1, <2>5, <2>6
<1> QED  BY <1>4, <1>5, <1>7, <1>10, <1>11, <1>12

(* A new version carries over dispositions, and no conflict it wants to    *)
(* have a review loses one.                                                *)
LEMMA IndexStep ==
    ASSUME TranscriptInv, Index
    PROVE  TranscriptInv'
<1> USE DEF TranscriptInv
<1>1. run.at = "idle" /\ run'.at = "idle" /\ UNCHANGED <<reviews, run, merged, kills>>
  BY DEF Index, At
<1>2. /\ TextType' /\ rows' \in [Rows -> Row]
      /\ links' \in SUBSET (Rows \X Rows) /\ links \subseteq links'
      /\ There' = There \cup Current' /\ Current' \cap There = {} /\ There' \subseteq Rows
      /\ \A x \in There : Says(x)' = Says(x)
      /\ \A x \in Current' : rows'[x] = Fresh \/ Copied(x)
      /\ \A x \in There : rows'[x] = rows[x] \/ GivenUp(x)
  BY IndexedRows
<1>3. Blocks \subseteq Blocks'
  BY <1>2, BlocksAreRows
<1>5. Fresh.is = "pending" /\ Fresh.of = NoTarget /\ Fresh.attempts = 0
  BY DEF Fresh
<1>6. TypeInv'
  <2>1. run = NoRun
    BY <1>1 DEF TypeInv, RunType, PrepassType, Batches, Placements, Settlements, NoRun
  <2>2. RunType'
    BY <1>1, <2>1 DEF RunType
  <2> QED  BY <1>1, <1>2, <2>2 DEF TypeInv
<1>7. ASSUME NEW x \in There'
      PROVE  \/ rows'[x] = Fresh
             \/ GivenUp(x)
             \/ \E p \in There : rows'[x] = rows[p]
  <2>1. CASE x \in Current'
    BY <1>2, <2>1 DEF Copied
  <2>2. CASE x \in There
    BY <1>2, <2>2
  <2> QED  BY <2>1, <2>2, <1>2
<1>8. TargetsKnown'
  <2>1. ASSUME NEW x \in There'
        PROVE  /\ rows'[x].is = "duplicate" =>
                   (\E b \in Blocks' : rows'[x].of = Block(b)) \/ (\E s \in There' : rows'[x].of = Placeholder(s))
               /\ rows'[x].is # "duplicate" => rows'[x].of = NoTarget
               /\ rows'[x].is \in {"pending", "failed"} => rows'[x].attempts < MaxAttempts
    <3>1. CASE rows'[x] = Fresh
      BY <1>5, <3>1, TranscriptAssumption
    <3>2. CASE GivenUp(x)
      BY <3>2 DEF GivenUp
    <3>3. ASSUME NEW p \in There, rows'[x] = rows[p]
          PROVE  /\ rows'[x].is = "duplicate" =>
                     (\E b \in Blocks' : rows'[x].of = Block(b)) \/ (\E s \in There' : rows'[x].of = Placeholder(s))
                 /\ rows'[x].is # "duplicate" => rows'[x].of = NoTarget
                 /\ rows'[x].is \in {"pending", "failed"} => rows'[x].attempts < MaxAttempts
      BY <1>2, <1>3, <3>3 DEF TargetsKnown
    <3> QED  BY <1>7, <3>1, <3>2, <3>3
  <2>2. \A v \in reviews' : v.existing \in Blocks'
    BY <1>1, <1>3 DEF TargetsKnown
  <2> QED  BY <2>1, <2>2 DEF TargetsKnown
<1>9. WorkInv' /\ PrepassInv' /\ PlaceInv' /\ MergedInv' /\ SettleInv'
  BY <1>1 DEF WorkInv, PrepassInv, PlaceInv, MergedInv, SettleInv
<1>10. ASSUME NEW y \in There', NEW x, rows'[y].of = Placeholder(x)
       PROVE  x \in There /\ \E z \in There : rows[z].of = Placeholder(x)
  <2>1. rows'[y] # Fresh /\ ~GivenUp(y)
    BY <1>5, <1>10, TargetFacts DEF GivenUp
  <2>2. PICK p \in There : rows'[y] = rows[p]
    BY <1>7, <2>1
  <2>3. rows[p].of = Placeholder(x)
    BY <1>10, <2>2
  <2>4. \E s \in There : rows[p].of = Placeholder(s)
    BY <2>3, TargetFacts DEF TargetsKnown
  <2>5. x \in There
    BY <2>3, <2>4, TargetFacts
  <2> QED  BY <2>3, <2>5
<1>11. ConflictInv'
  <2> SUFFICES ASSUME NEW x \in There', rows'[x].is = "conflicted_pending", Wanted(x)' PROVE HasReview(x)'
    BY DEF ConflictInv
  <2>0. /\ ~Listed(x)' /\ (HasReview(x)' <=> HasReview(x))
        /\ Wanted(x)' = (\/ \A p \in There' : p[1] < x[1] => Says(p)' # Says(x)'
                         \/ \E y \in There' : rows'[y].of = Placeholder(x)
                         \/ Listed(x)')
    BY <1>1 DEF Listed, HasReview, Wanted
  <2>1. CASE x \in Current'
    <3>1. Copied(x)
      BY <1>2, <1>5, <2>1
    <3>2. PICK p \in There : p[1] < x[1] /\ Says(p)' = Says(x)'
      BY <3>1 DEF Copied
    <3>3. PICK y \in There' : rows'[y].of = Placeholder(x)
      BY <1>2, <2>0, <3>2
    <3>4. x \in There
      BY <1>10, <3>3
    <3> QED  BY <1>2, <2>1, <3>4
  <2>2. CASE x \in There
    <3>1. rows'[x] = rows[x]
      BY <1>2, <2>2 DEF GivenUp
    <3>2. Wanted(x)
      <4>1. CASE \E y \in There' : rows'[y].of = Placeholder(x)
        BY <1>10, <4>1 DEF Wanted
      <4>2. CASE \A p \in There' : p[1] < x[1] => Says(p)' # Says(x)'
        <5>1. \A p \in There : p[1] < x[1] => Says(p) # Says(x)
          BY <1>2, <2>2, <4>2
        <5> QED  BY <5>1 DEF Wanted
      <4> QED  BY <2>0, <4>1, <4>2
    <3> QED  BY <2>0, <2>2, <3>1, <3>2 DEF ConflictInv
  <2> QED  BY <1>2, <2>1, <2>2
<1>12. KeptInv'
  <2> SUFFICES ASSUME kills = 0 PROVE KeptInv'
    BY <1>1 DEF KeptInv
  <2>1. \A x \in Current' : rows'[x].is # "superseded"
    BY <1>2, <1>5 DEF Copied
  <2>2. \A x \in There', y \in Rows : rows'[x].of # Placeholder(y)
    BY <1>1, <1>10 DEF KeptInv, Waits
  <2> QED  BY <1>1, <2>1, <2>2 DEF KeptInv, Waits
<1> QED  BY <1>6, <1>8, <1>9, <1>11, <1>12

--------------------------------------------------------------------------------
(* Every step, and what it guarantees.                                     *)

(* Nothing that is said of the transcript changes when nothing happens.    *)
LEMMA TranscriptStutter ==
    ASSUME TranscriptInv, UNCHANGED vars
    PROVE  TranscriptInv'
<1> USE DEF TranscriptInv
<1>1. UNCHANGED <<text, rows, links, reviews, run, merged, kills>>
  BY DEF vars
<1>2. /\ There' = There /\ Current' = Current /\ (\A r : Says(r)' = Says(r)) /\ (TextType' <=> TextType)
      /\ Blocks' = Blocks /\ (\A r : Held(r)' = Held(r)) /\ (\A r : Waits(r)' <=> Waits(r))
  BY <1>1, SameText, SameLinks, SameRows
<1>3. TypeInv'
  BY <1>1, <1>2 DEF TypeInv, RunType, PrepassType, validate_c6_response
<1>4. TargetsKnown' /\ ConflictInv'
  BY <1>1, SameLedger, SameConflicts DEF Listed, Wanted
<1>5. WorkInv' /\ PrepassInv'
  BY <1>1, <1>2 DEF WorkInv, PrepassInv
<1>6. PlaceInv' /\ MergedInv'
  BY <1>1, <1>2 DEF PlaceInv, MergedInv, HasReview
<1>7. SettleInv' /\ KeptInv'
  BY <1>1, <1>2 DEF SettleInv, KeptInv, Shared
<1> QED  BY <1>3, <1>4, <1>5, <1>6, <1>7

(* Every step keeps the invariant.                                         *)
LEMMA TranscriptNext ==
    ASSUME TranscriptInv, [Next]_vars
    PROVE  TranscriptInv'
<1>1. CASE Index
  BY <1>1, IndexStep
<1>2. ASSUME NEW review \in reviews, NEW accept \in BOOLEAN, Decide(review, accept) PROVE TranscriptInv'
  BY <1>2, DecideStep
<1>3. CASE StartRun
  BY <1>3, StartRunStep
<1>4. CASE BatchFails
  BY <1>4, BatchFailsStep
<1>5. CASE _preprocess_transcript_batch
  BY <1>5, PreprocessStep
<1>6. CASE apply_transcript_prepass
  BY <1>6, PrepassStep
<1>7. CASE _place_transcript_survivors
  BY <1>7, PlaceSurvivorsStep
<1>8. CASE Placing
  BY <1>8, LeaveSurvivorStep, CreateBlockStep, ResolvePlacedStep, RecordPlacedStep,
     CreateReviewStep, RecordConflictStep, PageConflictStep DEF Placing
<1>9. CASE BeginSettle
  BY <1>9, BeginSettleStep
<1>10. CASE settle_transcript_supersession
  BY <1>10, SettleStep
<1>11. CASE FinishRun
  BY <1>11, FinishRunStep
<1>12. CASE Kill
  BY <1>12, KillStep
<1>13. CASE UNCHANGED vars
  BY <1>13, TranscriptStutter
<1> QED  BY <1>1, <1>2, <1>3, <1>4, <1>5, <1>6, <1>7, <1>8, <1>9, <1>10, <1>11, <1>12, <1>13 DEF Next

(* TranscriptInv is an invariant.                                          *)
LEMMA TranscriptAlways == Spec => []TranscriptInv
<1>1. Init => TranscriptInv
  BY TranscriptInit
<1>2. TranscriptInv /\ [Next]_vars => TranscriptInv'
  BY TranscriptNext
<1> QED  BY <1>1, <1>2, PTL DEF Spec

(* What waits has a placeholder, and nothing else has one.                 *)
LEMMA PlaceholderWaits ==
    ASSUME TypeInv, NEW r \in Rows
    PROVE  HasPlaceholder(r) <=> Waits(r)
<1>1. rows[r].of \in Targets
  BY DEF TypeInv, Row, Targets
<1> QED  BY <1>1, TargetFacts DEF Targets, HasPlaceholder, Waits

(* A segment that the pre-pass of a run merged into a later one shares its *)
(* fate when the run ends: settle_transcript_supersession leaves it no     *)
(* placeholder, whatever became of the survivor.                           *)
THEOREM MergedSharesFate == Spec => []SharesFate
<1>1. ASSUME TranscriptInv PROVE SharesFate
  <2> SUFFICES ASSUME Finishes, NEW i \in 1..Len(merged)
               PROVE  LET r == merged[i][1]
                          s == merged[i][2]
                      IN /\ ~HasPlaceholder(r)
                         /\ \/ rows[r].is = rows[s].is
                            \/ rows[r].is = "duplicate" /\ \E b \in Blocks : rows[r].of = Block(b) /\ (b \in Held(s) \/ rows[s].of = Block(b))
    BY DEF SharesFate
  <2>1. run.at = "settling" /\ ToSet(run.todo) = {}
    BY NoEntries DEF Finishes, At
  <2>2. merged[i] \in ToSet(merged)
    BY <1>1 DEF ToSet, TranscriptInv, TypeInv
  <2>3. merged[i][1] \in Current /\ Shared(merged[i][1], merged[i][2])
    BY <1>1, <2>1, <2>2 DEF TranscriptInv, SettleInv
  <2>4. merged[i][1] \in Rows
    BY <1>1, <2>3, CurrentThere DEF TranscriptInv, TypeInv
  <2> QED  BY <1>1, <2>3, <2>4, PlaceholderWaits DEF Shared, TranscriptInv
<1> QED  BY <1>1, TranscriptAlways, PTL

(* A chunk that is left for a decision is a candidate of an open review    *)
(* row, when it is the first row of its text: _place_transcript_survivors  *)
(* makes the row first, and a chunk that is settled later is added to it.  *)
THEOREM ConflictsHaveReviews == Spec => []ConflictHasReview
<1>1. ASSUME TranscriptInv PROVE ConflictHasReview
  <2> SUFFICES ASSUME NEW r \in There, rows[r].is = "conflicted_pending",
                      \A p \in There : p[1] < r[1] => Says(p) # Says(r)
               PROVE  \E v \in reviews : r \in v.chunks
    BY DEF ConflictHasReview
  <2>1. Wanted(r)
    BY DEF Wanted
  <2> QED  BY <1>1, <2>1 DEF TranscriptInv, ConflictInv, HasReview
<1> QED  BY <1>1, TranscriptAlways, PTL

(* As long as no run is killed no segment of the current version is given  *)
(* up: a placeholder is settled in the run that made it, so its survivor   *)
(* is of the same version.                                                 *)
THEOREM CurrentIsKept == Spec => []CurrentKept
<1>1. ASSUME TranscriptInv PROVE CurrentKept
  BY <1>1 DEF TranscriptInv, KeptInv, CurrentKept, Current
<1> QED  BY <1>1, TranscriptAlways, PTL

(* A duplicate names a block that is there, or waits for a survivor: the   *)
(* block is linked before a placeholder becomes its name.                  *)
THEOREM DuplicatesHaveTargets == Spec => []DuplicateHasTarget
<1>1. ASSUME TranscriptInv PROVE DuplicateHasTarget
  <2> SUFFICES ASSUME NEW r \in There, rows[r].is = "duplicate"
               PROVE  rows[r].of \in {Block(b) : b \in Blocks} \/ HasPlaceholder(r)
    BY DEF DuplicateHasTarget
  <2>1. (\E b \in Blocks : rows[r].of = Block(b)) \/ (\E s \in There : rows[r].of = Placeholder(s))
    BY <1>1 DEF TranscriptInv, TargetsKnown
  <2> QED  BY <2>1, TargetFacts DEF HasPlaceholder
<1> QED  BY <1>1, TranscriptAlways, PTL
===============================================================================
