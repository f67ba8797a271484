---------------------------- MODULE ForestProofs ----------------------------
(***************************************************************************)
(* What Forest promises holds for any number of trees, keys and callers.   *)
(*                                                                         *)
(* Trees differ while calls run: an Insert has reached some of them, and a *)
(* tree that was added waits for its copy.  RootsOK says which tree holds  *)
(* what meanwhile, and the rest of the invariant that the calls carry it   *)
(* through: an Insert meets each tree once, and an AddTree copies a root   *)
(* that holds everything.  LogOK, IndexesOK and BoundsOK add what the log, *)
(* the log indexes and the counters are meanwhile.                         *)
(***************************************************************************)
EXTENDS Forest, CommonLemmas, FiniteSetTheorems

\* What the theorem assumes of the constants.
Assumed == ForestAssumption /\ UsedInOrder

-----------------------------------------------------------------------------
(* The invariant *)

InsertOp == [call : {"insert"}, serial : Nat, key : Keys, value : Values,
             left : Seq(Trees), step : {"root", "log"}]
AddOp    == [call : {"add"}, trees : Seq(Trees), left : Seq(Trees),
             step : {"choose", "load", "state", "copy", "store"},
             reference : Trees, refRoot : [data : Map, pointer : Trees \X Nat],
             refIndex : Nat]

TypesOK ==
  /\ together \in Disciplines
  /\ snapshot \in Seq(Trees)
  /\ root \in [Trees -> [data : Map, pointer : Trees \X Nat]]
  /\ logIndex \in [Trees -> Nat]
  /\ op \in [Callers -> {Idle} \cup InsertOp \cup AddOp]
  /\ inserts \in Nat
  /\ latest \in Map

Inserting(c) == op[c].call = "insert"
Adding(c)    == op[c].call = "add"

\* Which calls run at the same time.
OverlapOK ==
  /\ \A c, d \in Callers : Inserting(c) => ~Adding(d)
  /\ Serial => \A c, d \in Callers : op[c] # Idle /\ op[d] # Idle => c = d
  /\ ~Serial => \A c \in Callers : Inserting(c) => op[c].key \in KeysOf[c]

Distinct(s) == \A i, j \in 1..Len(s) : s[i] = s[j] => i = j

\* Every tree is on the list once, and every call has trees of the list left,
\* each once.
ListsOK ==
  /\ Distinct(snapshot) /\ First \in Members(snapshot)
  /\ \A c \in Callers : op[c] # Idle =>
       /\ Distinct(op[c].left) /\ Members(op[c].left) \subseteq Members(snapshot)
       /\ op[c].step \in {"log", "store"} => op[c].left # <<>>
  /\ \A c \in Callers : Adding(c) =>
       First \in Members(op[c].trees) /\ Members(op[c].trees) \subseteq Members(snapshot)

\* The Insert has published its root in t, or has it still to do.
Done(c, t) == \/ t \notin Members(op[c].left)
              \/ op[c].step = "log" /\ t = Head(op[c].left)

\* An AddTree will bring t along.
Awaited(t) == /\ root[t].data = Empty
              /\ \E c \in Callers : Adding(c) /\ t \in Members(op[c].left)

\* t holds what the returned Inserts wrote, but for the keys that a running
\* one has written.
UpToDate(t) ==
  \A k \in Keys :
    (\A c \in Callers : Inserting(c) /\ op[c].key = k => ~Done(c, t)) =>
      root[t].data[k] = latest[k]

RootsOK ==
  /\ UpToDate(First)
  /\ \A t \in Members(snapshot) : UpToDate(t) \/ Awaited(t)
  /\ \A c \in Callers, t \in Members(snapshot) :
       Inserting(c) /\ Done(c, t) => root[t].data[op[c].key] = op[c].value
  /\ \A t \in Trees \ Members(snapshot) : root[t].data = Empty

\* What AddTree copies, and where it has copied it, is up to date.
ReferenceOK ==
  \A c \in Callers : Adding(c) =>
    /\ op[c].step # "choose" =>
         /\ op[c].reference \in Members(snapshot)
         /\ root[op[c].reference].data = latest
    /\ op[c].step \in {"state", "copy", "store"} => op[c].refRoot.data = latest
    /\ op[c].step = "store" => root[Head(op[c].left)].data = latest

\* A pointer is to one root: the one an Insert is going to allocate is new.
PointersOK ==
  /\ \A t, u \in Trees :
       root[t].pointer = root[u].pointer => root[t].data = root[u].data
  /\ \A t \in Trees : root[t].pointer[2] <= inserts
  /\ \A c \in Callers : Adding(c) /\ op[c].step \in {"state", "copy", "store"} =>
       /\ op[c].refRoot.pointer[2] <= inserts
       /\ \A t \in Trees : root[t].pointer = op[c].refRoot.pointer =>
                            root[t].data = op[c].refRoot.data
  /\ \A c \in Callers : Inserting(c) =>
       /\ op[c].serial <= inserts
       /\ \A d \in Callers : Inserting(d) /\ op[d].serial = op[c].serial => c = d
       /\ \A t, u \in Trees :
            ~Done(c, t) => root[u].pointer # <<t, op[c].serial>>

IInv == TypesOK /\ OverlapOK /\ ListsOK /\ RootsOK /\ ReferenceOK /\ PointersOK

-----------------------------------------------------------------------------
(* Lists of trees *)

LEMMA MembersOfTail ==
  ASSUME NEW S, NEW s \in Seq(S), s # <<>>
  PROVE  /\ Head(s) \in Members(s) /\ Head(s) \in S /\ Tail(s) \in Seq(S)
         /\ \A x : x \in Members(s) <=> x = Head(s) \/ x \in Members(Tail(s))
         /\ Distinct(s) => Distinct(Tail(s)) /\ Head(s) \notin Members(Tail(s))
<1> DEFINE r == Tail(s)
           n == Len(r)
<1>1. /\ Head(s) = s[1] /\ Head(s) \in S /\ r \in Seq(S) /\ n \in Nat
      /\ Len(s) = n + 1
      /\ \A i \in 1..n : r[i] = s[i + 1]
  BY HeadTailProperties, EmptySeq
<1> HIDE DEF r, n
<1>2. 1 \in 1..Len(s) /\ \A i \in 1..n : i + 1 \in 1..Len(s) /\ i + 1 # 1
  BY <1>1
<1>3. \A j \in 1..Len(s) : j = 1 \/ (j - 1 \in 1..n /\ (j - 1) + 1 = j)
  BY <1>1
<1>4. Head(s) \in Members(s)
  BY <1>1, <1>2 DEF Members
<1>5. ASSUME NEW x PROVE x \in Members(s) <=> x = Head(s) \/ x \in Members(r)
  <2>1. ASSUME x \in Members(s) PROVE x = Head(s) \/ x \in Members(r)
    <3>1. PICK j \in 1..Len(s) : x = s[j]
      BY <2>1 DEF Members
    <3>2. CASE j = 1
      BY <3>1, <3>2, <1>1
    <3>3. CASE j - 1 \in 1..n /\ (j - 1) + 1 = j
      <4>1. r[j - 1] = x
        BY <3>1, <3>3, <1>1
      <4> QED BY <4>1, <3>3 DEF Members, n
    <3> QED BY <3>2, <3>3, <1>3
  <2>2. ASSUME x \in Members(r) PROVE x \in Members(s)
    <3>1. PICK i \in 1..n : x = r[i]
      BY <2>2 DEF Members, n
    <3>2. x = s[i + 1] /\ i + 1 \in 1..Len(s)
      BY <3>1, <1>1, <1>2
    <3> QED BY <3>2 DEF Members
  <2> QED BY <2>1, <2>2, <1>4
<1>6. ASSUME Distinct(s) PROVE Distinct(r) /\ Head(s) \notin Members(r)
  <2>1. \A i, j \in 1..Len(s) : s[i] = s[j] => i = j
    BY <1>6 DEF Distinct
  <2>2. ASSUME NEW i \in 1..n, NEW j \in 1..n, r[i] = r[j] PROVE i = j
    <3>1. s[i + 1] = s[j + 1] /\ i + 1 \in 1..Len(s) /\ j + 1 \in 1..Len(s)
      BY <2>2, <1>1, <1>2
    <3>2. i + 1 = j + 1
      BY <3>1, <2>1
    <3> QED BY <3>2
  <2>3. ASSUME NEW i \in 1..n, Head(s) = r[i] PROVE FALSE
    <3>1. s[1] = s[i + 1]
      BY <2>3, <1>1
    <3>2. 1 = i + 1
      BY <3>1, <2>1, <1>2
    <3> QED BY <3>2, <1>2
  <2>4. Distinct(r)
    BY <2>2 DEF Distinct, n
  <2>5. Head(s) \notin Members(r)
    BY <2>3 DEF Members, n
  <2> QED BY <2>4, <2>5
<1> QED BY <1>1, <1>4, <1>5, <1>6 DEF r

LEMMA MembersOfAppend ==
  ASSUME NEW S, NEW s \in Seq(S), NEW e \in S
  PROVE  /\ Append(s, e) \in Seq(S)
         /\ \A x : x \in Members(Append(s, e)) <=> x = e \/ x \in Members(s)
         /\ Distinct(s) /\ e \notin Members(s) => Distinct(Append(s, e))
<1> DEFINE r == Append(s, e)
           n == Len(s)
<1>1. /\ r \in Seq(S) /\ n \in Nat /\ Len(r) = n + 1 /\ r[n + 1] = e
      /\ \A i \in 1..n : r[i] = s[i]
  BY AppendProperties, LenProperties
<1> HIDE DEF r, n
<1>2. n + 1 \in 1..Len(r) /\ \A i \in 1..n : i \in 1..Len(r) /\ i # n + 1
  BY <1>1
<1>3. \A j \in 1..Len(r) : j \in 1..n \/ j = n + 1
  BY <1>1
<1>4. ASSUME NEW x PROVE x \in Members(r) <=> x = e \/ x \in Members(s)
  <2>1. ASSUME x \in Members(r) PROVE x = e \/ x \in Members(s)
    <3>1. PICK j \in 1..Len(r) : x = r[j]
      BY <2>1 DEF Members
    <3>2. j = n + 1 => x = e
      BY <3>1, <1>1
    <3>3. j \in 1..n => x = s[j]
      BY <3>1, <1>1
    <3> QED BY <3>2, <3>3, <1>3 DEF Members, n
  <2>2. e \in Members(r)
    BY <1>1, <1>2 DEF Members
  <2>3. ASSUME x \in Members(s) PROVE x \in Members(r)
    <3>1. PICK i \in 1..n : x = s[i]
      BY <2>3 DEF Members, n
    <3>2. x = r[i] /\ i \in 1..Len(r)
      BY <3>1, <1>1, <1>2
    <3> QED BY <3>2 DEF Members
  <2> QED BY <2>1, <2>2, <2>3
<1>5. ASSUME Distinct(s), e \notin Members(s) PROVE Distinct(r)
  <2>1. \A i, j \in 1..n : s[i] = s[j] => i = j
    BY <1>5 DEF Distinct, n
  <2>2. \A i \in 1..n : s[i] # e
    BY <1>5 DEF Members, n
  <2>3. ASSUME NEW i \in 1..Len(r), NEW j \in 1..Len(r), r[i] = r[j] PROVE i = j
    <3>1. CASE i \in 1..n /\ j \in 1..n
      <4>1. s[i] = s[j]
        BY <3>1, <2>3, <1>1
      <4> QED BY <4>1, <3>1, <2>1
    <3>2. CASE i \in 1..n /\ j = n + 1
      <4>1. s[i] = e
        BY <3>2, <2>3, <1>1
      <4> QED BY <4>1, <3>2, <2>2
    <3>3. CASE i = n + 1 /\ j \in 1..n
      <4>1. s[j] = e
        BY <3>3, <2>3, <1>1
      <4> QED BY <4>1, <3>3, <2>2
    <3> QED BY <3>1, <3>2, <3>3, <1>3
  <2> QED BY <2>3 DEF Distinct
<1> QED BY <1>1, <1>4, <1>5 DEF r

LEMMA NoMembers == Members(<<>>) = {}
  BY DEF Members

-----------------------------------------------------------------------------
(* Calls *)

\* What the fields of a running call range over.
LEMMA CallFields ==
  ASSUME TypesOK, NEW c \in Callers
  PROVE  /\ Inserting(c) => op[c] \in InsertOp
         /\ Adding(c) => op[c] \in AddOp
         /\ op[c] # Idle <=> Inserting(c) \/ Adding(c)
         /\ ~(Inserting(c) /\ Adding(c))
         /\ op[c] # Idle => op[c].left \in Seq(Trees)
         /\ op[c] = Idle => op[c].call = "none"
<1>1. op[c] \in {Idle} \cup InsertOp \cup AddOp
  BY DEF TypesOK
<1>2. CASE op[c] = Idle
  BY <1>2 DEF Idle, Inserting, Adding
<1>3. CASE op[c] \in InsertOp
  BY <1>3 DEF Idle, InsertOp, Inserting, Adding
<1>4. CASE op[c] \in AddOp
  BY <1>4 DEF Idle, AddOp, Inserting, Adding
<1> QED BY <1>1, <1>2, <1>3, <1>4

LEMMA NowIs ==
  ASSUME TypesOK, NEW c \in Callers, NEW call, Now(c, call),
         call \in {Idle} \cup InsertOp \cup AddOp
  PROVE  /\ op' \in [Callers -> {Idle} \cup InsertOp \cup AddOp]
         /\ op'[c] = call
         /\ \A d \in Callers : d # c => op'[d] = op[d]
<1> DEFINE T == {Idle} \cup InsertOp \cup AddOp
<1>1. op \in [Callers -> T] /\ call \in T
  BY DEF TypesOK
<1> HIDE DEF T
<1>2. op' = [op EXCEPT ![c] = call]
  BY DEF Now
<1>3. op' \in [Callers -> T] /\ op'[c] = call
      /\ \A d \in Callers : d # c => op'[d] = op[d]
  BY <1>1, <1>2
<1> QED BY <1>3 DEF T

\* A call that does nothing is what it was.
LEMMA OthersRest ==
  ASSUME NEW d \in Callers, op'[d] = op[d]
  PROVE  /\ Inserting(d)' <=> Inserting(d)
         /\ Adding(d)' <=> Adding(d)
         /\ \A t : Done(d, t)' <=> Done(d, t)
         /\ op'[d] = Idle <=> op[d] = Idle
  BY DEF Inserting, Adding, Done

\* While an Insert runs no tree is added, and the others are of other keys.
LEMMA InsertsApart ==
  ASSUME Assumed, TypesOK, OverlapOK, RootsOK, NEW c \in Callers, Inserting(c)
  PROVE  /\ \A d \in Callers : ~Adding(d)
         /\ \A t \in Members(snapshot) : UpToDate(t)
         /\ \A d \in Callers : Inserting(d) /\ d # c => op[d].key # op[c].key
<1>1. \A d \in Callers : ~Adding(d)
  BY DEF OverlapOK
<1>2. \A t \in Members(snapshot) : UpToDate(t)
  BY <1>1 DEF RootsOK, Awaited
<1>3. ASSUME NEW d \in Callers, Inserting(d), d # c PROVE op[d].key # op[c].key
  <2>1. op[c] # Idle /\ op[d] # Idle
    BY <1>3, CallFields
  <2>2. ~Serial
    BY <2>1, <1>3 DEF OverlapOK
  <2>3. op[c].key \in KeysOf[c] /\ op[d].key \in KeysOf[d]
    BY <2>2, <1>3 DEF OverlapOK
  <2> QED BY <2>3, <1>3 DEF Assumed, UsedInOrder
<1> QED BY <1>1, <1>2, <1>3

-----------------------------------------------------------------------------
(* Insert *)

LEMMA InsertCallKeeps ==
  ASSUME Assumed, IInv, UNCHANGED together, NEW c \in Callers, InsertCall(c)
  PROVE  IInv'
<1> USE DEF IInv
<1>1. PICK k \in Keys, v \in Values :
        /\ ~Serial => k \in KeysOf[c]
        /\ Now(c, [call |-> "insert", serial |-> inserts', key |-> k,
                   value |-> v, left |-> snapshot, step |-> "root"])
  BY DEF InsertCall, Assumed, ForestAssumption
<1>2. /\ inserts' = inserts + 1 /\ inserts \in Nat
      /\ UNCHANGED <<snapshot, root, logIndex, logged, latest>>
  BY DEF InsertCall, TypesOK
<1> DEFINE call == [call |-> "insert", serial |-> inserts', key |-> k,
                    value |-> v, left |-> snapshot, step |-> "root"]
<1>3. call \in InsertOp
  BY <1>2 DEF InsertOp, TypesOK
<1>4. /\ call.call = "insert" /\ call.serial = inserts + 1 /\ call.key = k
      /\ call.left = snapshot /\ call.step = "root"
  BY <1>2
<1> HIDE DEF call
<1>5. /\ op' \in [Callers -> {Idle} \cup InsertOp \cup AddOp]
      /\ op'[c] = call
      /\ \A d \in Callers : d # c => op'[d] = op[d]
  BY <1>1, <1>3, NowIs DEF call
<1>6. /\ op[c] = Idle /\ ~Inserting(c) /\ ~Adding(c)
      /\ \A d \in Callers : op[d] # Idle => {"insert", op[d].call} \in together
  BY CallFields DEF InsertCall, MayStart
<1>7. \A d \in Callers : ~Adding(d)
  BY <1>6, CallFields DEF Assumed, UsedInOrder, TypesOK, Adding
<1>8. Inserting(c)' /\ ~Adding(c)' /\ op'[c] # Idle
  BY <1>4, <1>5 DEF Inserting, Adding, Idle
<1>9. \A d \in Callers : d # c =>
        /\ Inserting(d)' <=> Inserting(d)
        /\ Adding(d)' <=> Adding(d)
        /\ \A t : Done(d, t)' <=> Done(d, t)
        /\ op'[d] = Idle <=> op[d] = Idle
  BY <1>5, OthersRest
<1>10. \A d \in Callers : ~Adding(d)'
  BY <1>7, <1>8, <1>9
<1>11. \A t \in Members(snapshot) : ~Done(c, t)'
  BY <1>4, <1>5 DEF Done
<1>12. TypesOK'
  BY <1>2, <1>5 DEF TypesOK
<1>13. OverlapOK'
  <2>1. Serial => \A d \in Callers : op[d] = Idle
    BY <1>6 DEF Serial
  <2>2. Serial' <=> Serial
    BY DEF Serial
  <2>3. ~Serial => op'[c].key \in KeysOf[c]
    BY <1>1, <1>4, <1>5
  <2>4. ~Serial => \A d \in Callers : Inserting(d)' => op'[d].key \in KeysOf[d]
    BY <2>3, <1>5, <1>9 DEF OverlapOK
  <2>5. Serial => \A d, e \in Callers : op'[d] # Idle /\ op'[e] # Idle => d = e
    BY <2>1, <1>9
  <2> QED BY <2>2, <2>4, <2>5, <1>10 DEF OverlapOK
<1>14. ListsOK'
  BY <1>2, <1>4, <1>5, <1>9, <1>10 DEF ListsOK
<1>15. RootsOK'
  <2>1. ASSUME NEW t \in Members(snapshot), UpToDate(t) PROVE UpToDate(t)'
    BY <2>1, <1>2, <1>5, <1>6, <1>9, <1>11 DEF UpToDate
  <2>2. \A t \in Members(snapshot) : UpToDate(t)
    BY <1>7 DEF RootsOK, Awaited
  <2>3. First \in Members(snapshot)
    BY DEF ListsOK
  <2>4. ASSUME NEW d \in Callers, NEW t \in Members(snapshot),
               Inserting(d)', Done(d, t)'
        PROVE  root'[t].data[op'[d].key] = op'[d].value
    <3>1. d # c
      BY <2>4, <1>11
    <3> QED BY <3>1, <2>4, <1>2, <1>5, <1>9 DEF RootsOK
  <2> QED BY <2>1, <2>2, <2>3, <2>4, <1>2 DEF RootsOK
<1>16. ReferenceOK'
  BY <1>10 DEF ReferenceOK
<1>17. PointersOK'
  <2>1. ASSUME NEW d \in Callers, Inserting(d)'
        PROVE  /\ op'[d].serial <= inserts'
               /\ \A e \in Callers :
                    Inserting(e)' /\ op'[e].serial = op'[d].serial => d = e
               /\ \A t, u \in Trees :
                    ~Done(d, t)' => root'[u].pointer # <<t, op'[d].serial>>
    <3>1. \A e \in Callers : Inserting(e) => op[e].serial \in Nat
      BY CallFields DEF InsertOp
    <3>2. \A e \in Callers : Inserting(e) => op[e].serial <= inserts
      BY DEF PointersOK
    <3>3. CASE d = c
      <4>1. \A e \in Callers : Inserting(e) => op[e].serial # inserts + 1
        BY <3>1, <3>2, <1>2
      <4>2. \A u \in Trees : root[u].pointer[2] \in Nat /\ root[u].pointer[2] <= inserts
        BY DEF PointersOK, TypesOK
      <4>3. \A u \in Trees : root[u].pointer[2] # inserts + 1
        BY <4>2, <1>2
      <4> QED BY <3>3, <4>1, <4>3, <1>2, <1>4, <1>5, <1>9
    <3>4. CASE d # c
      <4>1. /\ Inserting(d) /\ op'[d] = op[d]
        BY <3>4, <2>1, <1>5, <1>9
      <4>2. op[d].serial # inserts + 1 /\ op[d].serial <= inserts + 1
        BY <4>1, <3>1, <3>2, <1>2
      <4>3. \A e \in Callers :
              Inserting(e)' /\ op'[e].serial = op[d].serial => d = e
        BY <4>1, <4>2, <1>4, <1>5, <1>9 DEF PointersOK
      <4>4. \A t, u \in Trees :
              ~Done(d, t) => root[u].pointer # <<t, op[d].serial>>
        BY <4>1 DEF PointersOK
      <4> QED BY <3>4, <4>1, <4>2, <4>3, <4>4, <1>2, <1>9
    <3> QED BY <3>3, <3>4
  <2>2. \A t \in Trees : root[t].pointer[2] \in Nat
    BY DEF TypesOK
  <2>3. \A t \in Trees : root'[t].pointer[2] <= inserts'
    BY <2>2, <1>2 DEF PointersOK
  <2> QED BY <2>1, <2>3, <1>2, <1>10 DEF PointersOK
<1> QED BY <1>12, <1>13, <1>14, <1>15, <1>16, <1>17

LEMMA InsertReturnKeeps ==
  ASSUME Assumed, IInv, UNCHANGED together, NEW c \in Callers, InsertReturn(c)
  PROVE  IInv'
<1> USE DEF IInv
<1>1. /\ Inserting(c) /\ op[c].left = <<>>
      /\ latest' = [latest EXCEPT ![op[c].key] = op[c].value]
      /\ UNCHANGED <<snapshot, root, logIndex, logged, inserts>>
  BY DEF InsertReturn, Inserting
<1>2. op[c] \in InsertOp /\ op[c].key \in Keys /\ op[c].value \in Values
  BY <1>1, CallFields DEF InsertOp
<1>3. /\ op' \in [Callers -> {Idle} \cup InsertOp \cup AddOp]
      /\ op'[c] = Idle
      /\ \A d \in Callers : d # c => op'[d] = op[d]
  BY NowIs DEF InsertReturn
<1>4. ~Inserting(c)' /\ ~Adding(c)'
  BY <1>3 DEF Inserting, Adding, Idle
<1>5. \A d \in Callers : d # c =>
        /\ Inserting(d)' <=> Inserting(d)
        /\ Adding(d)' <=> Adding(d)
        /\ \A t : Done(d, t)' <=> Done(d, t)
        /\ op'[d] = Idle <=> op[d] = Idle
  BY <1>3, OthersRest
<1>6. /\ \A d \in Callers : ~Adding(d)
      /\ \A t \in Members(snapshot) : UpToDate(t)
      /\ \A d \in Callers : Inserting(d) /\ d # c => op[d].key # op[c].key
  BY <1>1, InsertsApart
<1>7. \A d \in Callers : ~Adding(d)'
  BY <1>4, <1>5, <1>6
<1>8. /\ latest' \in Map /\ latest'[op[c].key] = op[c].value
      /\ \A k \in Keys : k # op[c].key => latest'[k] = latest[k]
  BY <1>1, <1>2 DEF TypesOK, Map
<1>9. TypesOK'
  BY <1>1, <1>3, <1>8 DEF TypesOK
<1>10. OverlapOK'
  <2>1. Serial' <=> Serial
    BY DEF Serial
  <2>2. \A d \in Callers : Inserting(d)' => d # c /\ Inserting(d) /\ op'[d] = op[d]
    BY <1>3, <1>4, <1>5
  <2>3. \A d \in Callers : op'[d] # Idle => op[d] # Idle
    BY <1>3, <1>5
  <2> QED BY <2>1, <2>2, <2>3, <1>7 DEF OverlapOK
<1>11. ListsOK'
  BY <1>1, <1>3, <1>5, <1>7 DEF ListsOK
<1>12. \A t : Done(c, t)
  BY <1>1, NoMembers DEF Done
<1>13. RootsOK'
  <2>1. ASSUME NEW t \in Members(snapshot) PROVE UpToDate(t)'
    <3>1. ASSUME NEW k \in Keys,
                 \A d \in Callers : Inserting(d)' /\ op'[d].key = k => ~Done(d, t)'
          PROVE  root[t].data[k] = latest'[k]
      <4>1. CASE k = op[c].key
        <5>1. root[t].data[op[c].key] = op[c].value
          BY <1>1, <1>12 DEF RootsOK
        <5> QED BY <4>1, <5>1, <1>8
      <4>2. CASE k # op[c].key
        <5>1. \A d \in Callers : Inserting(d) /\ op[d].key = k => ~Done(d, t)
          BY <3>1, <4>2, <1>3, <1>5
        <5>2. root[t].data[k] = latest[k]
          BY <5>1, <1>6 DEF UpToDate
        <5> QED BY <4>2, <5>2, <1>8
      <4> QED BY <4>1, <4>2
    <3> QED BY <3>1, <1>1 DEF UpToDate
  <2>2. First \in Members(snapshot)
    BY DEF ListsOK
  <2>3. \A d \in Callers, t \in Members(snapshot) :
          Inserting(d)' /\ Done(d, t)' => root[t].data[op'[d].key] = op'[d].value
    BY <1>3, <1>4, <1>5 DEF RootsOK
  <2> QED BY <2>1, <2>2, <2>3, <1>1 DEF RootsOK
<1>14. ReferenceOK'
  BY <1>7 DEF ReferenceOK
<1>15. PointersOK'
  <2>1. ASSUME NEW d \in Callers, Inserting(d)'
        PROVE  /\ op'[d].serial <= inserts'
               /\ \A e \in Callers :
                    Inserting(e)' /\ op'[e].serial = op'[d].serial => d = e
               /\ \A t, u \in Trees :
                    ~Done(d, t)' => root'[u].pointer # <<t, op'[d].serial>>
    <3>1. d # c /\ Inserting(d) /\ op'[d] = op[d]
      BY <2>1, <1>3, <1>4, <1>5
    <3>2. \A e \in Callers : Inserting(e)' => Inserting(e) /\ op'[e] = op[e]
      BY <1>3, <1>4, <1>5
    <3> QED BY <3>1, <3>2, <1>1, <1>5 DEF PointersOK
  <2> QED BY <2>1, <1>1, <1>7 DEF PointersOK
<1> QED BY <1>9, <1>10, <1>11, <1>13, <1>14, <1>15

\* What an Insert makes of the root of a tree.
Written(t, k, v, p) ==
  [root EXCEPT ![t] = [data |-> [@.data EXCEPT ![k] = v], pointer |-> p]]

LEMMA RootWritten ==
  ASSUME TypesOK, NEW t \in Trees, NEW k \in Keys, NEW v \in Values,
         NEW p \in Trees \X Nat,
         root' = Written(t, k, v, p)
  PROVE  /\ root' \in [Trees -> [data : Map, pointer : Trees \X Nat]]
         /\ \A u \in Trees : u # t => root'[u] = root[u]
         /\ root'[t].pointer = p
         /\ root'[t].data[k] = v
         /\ \A l \in Keys : l # k => root'[t].data[l] = root[t].data[l]
<1> DEFINE R == [data : Map, pointer : Trees \X Nat]
           data  == [root[t].data EXCEPT ![k] = v]
           new == [data |-> data, pointer |-> p]
<1>1. root[t] \in R /\ root[t].data \in [Keys -> Values \cup {None}]
  BY DEF TypesOK, Map
<1>2. /\ data \in Map /\ data[k] = v
      /\ \A l \in Keys : l # k => data[l] = root[t].data[l]
  BY <1>1 DEF Map
<1>3. root' = [root EXCEPT ![t] = new]
  BY <1>1 DEF TypesOK, Written
<1> HIDE DEF data
<1>4. new \in R /\ new.data = data /\ new.pointer = p
  BY <1>2
<1> HIDE DEF new, R
<1>5. root \in [Trees -> R]
  BY DEF TypesOK, R
<1>6. /\ root' \in [Trees -> R] /\ root'[t] = new
      /\ \A u \in Trees : u # t => root'[u] = root[u]
  BY <1>3, <1>4, <1>5
<1> QED BY <1>2, <1>4, <1>6 DEF R

LEMMA InsertRootKeeps ==
  ASSUME Assumed, IInv, UNCHANGED together, NEW c \in Callers, InsertRoot(c)
  PROVE  IInv'
<1> USE DEF IInv
<1>1. /\ Inserting(c) /\ op[c].left # <<>> /\ op[c].step = "root"
      /\ UNCHANGED <<snapshot, logIndex, logged, inserts, latest>>
  BY DEF InsertRoot, Inserting
<1>2. /\ op[c] \in InsertOp /\ op[c].key \in Keys /\ op[c].value \in Values
      /\ op[c].left \in Seq(Trees) /\ op[c].serial \in Nat
  BY <1>1, CallFields DEF InsertOp
<1> DEFINE t == Head(op[c].left)
           k == op[c].key
           call == [op[c] EXCEPT !.step = "log"]
<1>3. t \in Trees /\ t \in Members(op[c].left)
  BY <1>1, <1>2, MembersOfTail
<1>4. t \in Members(snapshot)
  <2>1. op[c] # Idle
    BY <1>1, CallFields
  <2> QED BY <2>1, <1>3 DEF ListsOK
<1>5. call \in InsertOp
  BY <1>2 DEF InsertOp
<1>6. /\ call.call = "insert" /\ call.serial = op[c].serial /\ call.key = k
      /\ call.value = op[c].value /\ call.left = op[c].left /\ call.step = "log"
  BY <1>2 DEF InsertOp, Inserting
<1>7. Now(c, call)
  BY DEF InsertRoot
<1>8. root' = Written(t, op[c].key, op[c].value, <<t, op[c].serial>>)
  BY DEF InsertRoot, Written
<1> HIDE DEF call, t
<1>9. /\ root' \in [Trees -> [data : Map, pointer : Trees \X Nat]]
      /\ \A u \in Trees : u # t => root'[u] = root[u]
      /\ root'[t].pointer = <<t, op[c].serial>>
      /\ root'[t].data[k] = op[c].value
      /\ \A l \in Keys : l # k => root'[t].data[l] = root[t].data[l]
  <2>1. <<t, op[c].serial>> \in Trees \X Nat
    BY <1>2, <1>3
  <2>2. TypesOK
    OBVIOUS
  <2> DEFINE l  == op[c].key
             v  == op[c].value
             p  == <<t, op[c].serial>>
  <2>3. l \in Keys /\ v \in Values /\ root' = Written(t, l, v, p)
    BY <1>2, <1>8
  <2> HIDE DEF IInv, l, v, p
  <2>4. /\ root' \in [Trees -> [data : Map, pointer : Trees \X Nat]]
        /\ \A u \in Trees : u # t => root'[u] = root[u]
        /\ root'[t].pointer = p /\ root'[t].data[l] = v
        /\ \A m \in Keys : m # l => root'[t].data[m] = root[t].data[m]
    <3>1. p \in Trees \X Nat
      BY <2>1 DEF p
    <3> QED BY <3>1, <2>2, <2>3, <1>3, RootWritten
  <2> QED BY <2>4 DEF l, v, p
<1>10. /\ op' \in [Callers -> {Idle} \cup InsertOp \cup AddOp]
       /\ op'[c] = call
       /\ \A d \in Callers : d # c => op'[d] = op[d]
  BY <1>5, <1>7, NowIs
<1>11. Inserting(c)' /\ ~Adding(c)' /\ op'[c] # Idle /\ op[c] # Idle
  BY <1>1, <1>6, <1>10, CallFields DEF Inserting, Adding, Idle
<1>12. \A d \in Callers : d # c =>
        /\ Inserting(d)' <=> Inserting(d)
        /\ Adding(d)' <=> Adding(d)
        /\ \A u : Done(d, u)' <=> Done(d, u)
        /\ op'[d] = Idle <=> op[d] = Idle
  BY <1>10, OthersRest
<1>13. /\ \A d \in Callers : ~Adding(d)
       /\ \A u \in Members(snapshot) : UpToDate(u)
       /\ \A d \in Callers : Inserting(d) /\ d # c => op[d].key # op[c].key
  BY <1>1, InsertsApart
<1>14. \A d \in Callers : ~Adding(d)'
  BY <1>11, <1>12, <1>13
<1>15. /\ ~Done(c, t)
       /\ \A d, u : d = c /\ u = t => Done(d, u)'
       /\ \A u : u # t => (Done(c, u)' <=> Done(c, u))
  BY <1>1, <1>3, <1>6, <1>10 DEF Done, t
<1>16. \A d \in Callers : /\ Inserting(d)' <=> Inserting(d)
                          /\ Inserting(d) => /\ op'[d].key = op[d].key
                                             /\ op'[d].value = op[d].value
                                             /\ op'[d].serial = op[d].serial
  BY <1>1, <1>6, <1>10, <1>11, <1>12
<1>17. Members(snapshot) \subseteq Trees
  BY DEF Members, TypesOK
<1>18. TypesOK'
  BY <1>1, <1>9, <1>10 DEF TypesOK
<1>19. OverlapOK'
  <2>1. Serial' <=> Serial
    BY DEF Serial
  <2>2. \A d \in Callers : op'[d] # Idle => op[d] # Idle
    BY <1>11, <1>12
  <2> QED BY <2>1, <2>2, <1>14, <1>16 DEF OverlapOK
<1>20. ListsOK'
  <2>1. ASSUME NEW d \in Callers, op'[d] # Idle
        PROVE  /\ Distinct(op'[d].left) /\ Members(op'[d].left) \subseteq Members(snapshot)
               /\ op'[d].step \in {"log", "store"} => op'[d].left # <<>>
    <3>1. op[d] # Idle /\ op'[d].left = op[d].left /\ (d # c => op'[d] = op[d])
      BY <2>1, <1>6, <1>10, <1>11, <1>12
    <3> QED BY <3>1, <1>1 DEF ListsOK
  <2> QED BY <2>1, <1>1, <1>14 DEF ListsOK
<1>21. RootsOK'
  <2>1. ASSUME NEW u \in Members(snapshot) PROVE UpToDate(u)'
    <3>1. ASSUME NEW l \in Keys,
                 \A d \in Callers : Inserting(d)' /\ op'[d].key = l => ~Done(d, u)'
          PROVE  root'[u].data[l] = latest[l]
      <4>1. u = t => l # k
        BY <3>1, <1>11, <1>15, <1>16, <1>1
      <4>2. \A d \in Callers : Inserting(d) /\ op[d].key = l => ~Done(d, u)
        BY <3>1, <1>12, <1>15, <1>16
      <4>3. root[u].data[l] = latest[l]
        BY <4>2, <1>13 DEF UpToDate
      <4> QED BY <4>1, <4>3, <1>9, <1>17
    <3> QED BY <3>1, <1>1 DEF UpToDate
  <2>2. First \in Members(snapshot)
    BY DEF ListsOK
  <2>3. ASSUME NEW d \in Callers, NEW u \in Members(snapshot),
               Inserting(d)', Done(d, u)'
        PROVE  root'[u].data[op'[d].key] = op'[d].value
    <3>1. Inserting(d) /\ op'[d].key = op[d].key /\ op'[d].value = op[d].value
          /\ op[d].key \in Keys
      BY <2>3, <1>16, CallFields DEF InsertOp
    <3>2. CASE d = c /\ u = t
      BY <3>1, <3>2, <1>9
    <3>3. CASE d = c /\ u # t
      <4>1. root[u].data[op[d].key] = op[d].value
        BY <3>1, <3>3, <2>3, <1>15 DEF RootsOK
      <4> QED BY <4>1, <3>1, <3>3, <1>9, <1>17
    <3>4. CASE d # c
      <4>1. root[u].data[op[d].key] = op[d].value
        BY <3>1, <3>4, <2>3, <1>12 DEF RootsOK
      <4>2. op[d].key # k
        BY <3>1, <3>4, <1>13
      <4> QED BY <4>1, <4>2, <3>1, <1>9, <1>17
    <3> QED BY <3>2, <3>3, <3>4
  <2>4. \A u \in Trees \ Members(snapshot) : root'[u].data = Empty
    BY <1>4, <1>9 DEF RootsOK
  <2> QED BY <2>1, <2>2, <2>3, <2>4, <1>1 DEF RootsOK
<1>22. ReferenceOK'
  BY <1>14 DEF ReferenceOK
<1>23. PointersOK'
  <2>1. \A u \in Trees : root[u].pointer # <<t, op[c].serial>>
    BY <1>1, <1>3, <1>15 DEF PointersOK
  <2>2. ASSUME NEW u \in Trees, NEW w \in Trees, root'[u].pointer = root'[w].pointer
        PROVE  root'[u].data = root'[w].data
    <3>1. CASE u = t /\ w = t
      BY <3>1
    <3>2. CASE u # t /\ w # t
      BY <2>2, <3>2, <1>9 DEF PointersOK
    <3>3. CASE u = t /\ w # t
      BY <2>1, <2>2, <3>3, <1>9
    <3>4. CASE u # t /\ w = t
      BY <2>1, <2>2, <3>4, <1>9
    <3> QED BY <3>1, <3>2, <3>3, <3>4
  <2>3. \A u \in Trees : root'[u].pointer[2] <= inserts'
    <3>1. op[c].serial <= inserts
      BY <1>1 DEF PointersOK
    <3>2. \A u \in Trees : root[u].pointer[2] <= inserts
      BY DEF PointersOK
    <3>3. root'[t].pointer[2] = op[c].serial
      BY <1>9
    <3> QED BY <3>1, <3>2, <3>3, <1>1, <1>9
  <2>4. ASSUME NEW d \in Callers, Inserting(d)'
        PROVE  /\ op'[d].serial <= inserts'
               /\ \A e \in Callers :
                    Inserting(e)' /\ op'[e].serial = op'[d].serial => d = e
    BY <2>4, <1>1, <1>16 DEF PointersOK
  <2>5. ASSUME NEW d \in Callers, Inserting(d)', NEW u \in Trees, NEW w \in Trees,
               ~Done(d, u)'
        PROVE  root'[w].pointer # <<u, op'[d].serial>>
    <3>1. Inserting(d) /\ op'[d].serial = op[d].serial
      BY <2>5, <1>16
    <3>2. ~Done(d, u) /\ ~(d = c /\ u = t)
      BY <2>5, <1>12, <1>15
    <3>3. root[w].pointer # <<u, op[d].serial>>
      BY <3>1, <3>2 DEF PointersOK
    <3>4. ASSUME w = t PROVE <<t, op[c].serial>> # <<u, op[d].serial>>
      <4>1. op[c].serial = op[d].serial => c = d
        BY <3>1, <1>1 DEF PointersOK
      <4> QED BY <4>1, <3>2
    <3> QED BY <3>1, <3>3, <3>4, <1>9
  <2> QED BY <2>2, <2>3, <2>4, <2>5, <1>14 DEF PointersOK
<1> QED BY <1>18, <1>19, <1>20, <1>21, <1>22, <1>23

LEMMA InsertLogKeeps ==
  ASSUME Assumed, IInv, UNCHANGED together, NEW c \in Callers, InsertLog(c)
  PROVE  IInv'
<1> USE DEF IInv
<1>1. /\ Inserting(c) /\ op[c].step = "log"
      /\ UNCHANGED <<snapshot, root, inserts, latest>>
  BY DEF InsertLog, Inserting
<1>2. op[c] # Idle
  BY <1>1, CallFields
<1>3. /\ op[c] \in InsertOp /\ op[c].left \in Seq(Trees) /\ op[c].left # <<>>
      /\ Distinct(op[c].left) /\ Members(op[c].left) \subseteq Members(snapshot)
  BY <1>1, <1>2, CallFields DEF InsertOp, ListsOK
<1> DEFINE t == Head(op[c].left)
           call == [op[c] EXCEPT !.left = Tail(@), !.step = "root"]
<1>4. /\ t \in Trees /\ Tail(op[c].left) \in Seq(Trees)
      /\ \A u : u \in Members(op[c].left) <=> u = t \/ u \in Members(Tail(op[c].left))
      /\ Distinct(Tail(op[c].left)) /\ t \notin Members(Tail(op[c].left))
  BY <1>3, MembersOfTail
<1>5. call \in InsertOp
  BY <1>3, <1>4 DEF InsertOp
<1>6. /\ call.call = "insert" /\ call.serial = op[c].serial /\ call.key = op[c].key
      /\ call.value = op[c].value /\ call.left = Tail(op[c].left) /\ call.step = "root"
  BY <1>1, <1>3 DEF InsertOp, Inserting
<1>7. Now(c, call)
  BY DEF InsertLog
<1>8. logIndex' \in [Trees -> Nat]
  <2>1. logIndex' = [logIndex EXCEPT ![t] = @ + 1]
    BY DEF InsertLog
  <2> QED BY <2>1, <1>4 DEF TypesOK
<1> HIDE DEF call, t
<1>9. /\ op' \in [Callers -> {Idle} \cup InsertOp \cup AddOp]
      /\ op'[c] = call
      /\ \A d \in Callers : d # c => op'[d] = op[d]
  BY <1>5, <1>7, NowIs
<1>10. Inserting(c)' /\ ~Adding(c)' /\ op'[c] # Idle
  BY <1>6, <1>9 DEF Inserting, Adding, Idle
<1>11. \A u : Done(c, u)' <=> Done(c, u)
  BY <1>1, <1>4, <1>6, <1>9 DEF Done, t
<1>12. \A d \in Callers : d # c =>
        /\ Inserting(d)' <=> Inserting(d)
        /\ Adding(d)' <=> Adding(d)
        /\ \A u : Done(d, u)' <=> Done(d, u)
        /\ op'[d] = Idle <=> op[d] = Idle
  BY <1>9, OthersRest
<1>13. \A d \in Callers : ~Adding(d) /\ ~Adding(d)'
  BY <1>1, <1>10, <1>12, InsertsApart
<1>14. \A d \in Callers :
         /\ Inserting(d)' <=> Inserting(d)
         /\ \A u : Done(d, u)' <=> Done(d, u)
         /\ op'[d] # Idle <=> op[d] # Idle
         /\ Inserting(d) => /\ op'[d].key = op[d].key
                            /\ op'[d].value = op[d].value
                            /\ op'[d].serial = op[d].serial
  BY <1>1, <1>2, <1>6, <1>9, <1>10, <1>11, <1>12
<1>15. TypesOK'
  BY <1>1, <1>8, <1>9 DEF TypesOK
<1>16. OverlapOK'
  <2>1. Serial' <=> Serial
    BY DEF Serial
  <2> QED BY <2>1, <1>13, <1>14 DEF OverlapOK
<1>17. ListsOK'
  <2>1. ASSUME NEW d \in Callers, op'[d] # Idle
        PROVE  /\ Distinct(op'[d].left) /\ Members(op'[d].left) \subseteq Members(snapshot)
               /\ op'[d].step \in {"log", "store"} => op'[d].left # <<>>
    <3>1. CASE d = c
      BY <3>1, <1>3, <1>4, <1>6, <1>9
    <3>2. CASE d # c
      <4>1. op[d] # Idle /\ op'[d] = op[d]
        BY <2>1, <3>2, <1>9
      <4> QED BY <4>1 DEF ListsOK
    <3> QED BY <3>1, <3>2
  <2> QED BY <2>1, <1>1, <1>13 DEF ListsOK
<1>18. RootsOK'
  <2>1. ASSUME NEW u \in Members(snapshot) PROVE UpToDate(u)'
    <3>1. UpToDate(u)
      BY <1>1, InsertsApart
    <3> QED BY <3>1, <1>1, <1>14 DEF UpToDate
  <2>2. First \in Members(snapshot)
    BY DEF ListsOK
  <2>3. \A d \in Callers, u \in Members(snapshot) :
          Inserting(d)' /\ Done(d, u)' => root[u].data[op'[d].key] = op'[d].value
    BY <1>14 DEF RootsOK
  <2> QED BY <2>1, <2>2, <2>3, <1>1 DEF RootsOK
<1>19. ReferenceOK'
  BY <1>13 DEF ReferenceOK
<1>20. PointersOK'
  <2>1. ASSUME NEW d \in Callers, Inserting(d)'
        PROVE  /\ op'[d].serial <= inserts
               /\ \A e \in Callers :
                    Inserting(e)' /\ op'[e].serial = op'[d].serial => d = e
               /\ \A u, w \in Trees :
                    ~Done(d, u)' => root[w].pointer # <<u, op'[d].serial>>
    BY <2>1, <1>14 DEF PointersOK
  <2> QED BY <2>1, <1>1, <1>13 DEF PointersOK
<1> QED BY <1>15, <1>16, <1>17, <1>18, <1>19, <1>20

-----------------------------------------------------------------------------
(* AddTree *)

\* Between Inserts, to be up to date is to hold what they wrote.
LEMMA UpToDateIs ==
  ASSUME TypesOK, \A d \in Callers : ~Inserting(d), NEW t \in Trees
  PROVE  UpToDate(t) <=> root[t].data = latest
<1>1. root[t].data \in Map /\ latest \in Map
  BY DEF TypesOK
<1>2. UpToDate(t) <=> \A k \in Keys : root[t].data[k] = latest[k]
  BY DEF UpToDate
<1> QED BY <1>1, <1>2 DEF Map

LEMMA AddsApart ==
  ASSUME TypesOK, OverlapOK, NEW c \in Callers, Adding(c)
  PROVE  \A d \in Callers : ~Inserting(d)
  BY DEF OverlapOK

LEMMA AddAppendKeeps ==
  ASSUME Assumed, IInv, UNCHANGED together, NEW c \in Callers, NEW t \in Trees,
         AddAppend(c, t)
  PROVE  IInv'
<1> USE DEF IInv
<1> DEFINE call == [call |-> "add", trees |-> snapshot', left |-> snapshot',
                    step |-> "choose", reference |-> t, refRoot |-> root[t],
                    refIndex |-> 0]
<1>1. /\ t \notin Members(snapshot) /\ snapshot' = Append(snapshot, t)
      /\ UNCHANGED <<root, logIndex, logged, inserts, latest>>
      /\ Now(c, call)
  BY DEF AddAppend
<1>2. /\ snapshot' \in Seq(Trees)
      /\ \A x : x \in Members(snapshot') <=> x = t \/ x \in Members(snapshot)
      /\ Distinct(snapshot')
  BY <1>1, MembersOfAppend DEF TypesOK, ListsOK
<1>3. call \in AddOp
  BY <1>2 DEF AddOp, TypesOK
<1>4. /\ call.call = "add" /\ call.trees = snapshot' /\ call.left = snapshot'
      /\ call.step = "choose"
  OBVIOUS
<1> HIDE DEF call
<1>5. /\ op' \in [Callers -> {Idle} \cup InsertOp \cup AddOp]
      /\ op'[c] = call
      /\ \A d \in Callers : d # c => op'[d] = op[d]
  BY <1>1, <1>3, NowIs
<1>6. /\ op[c] = Idle /\ ~Inserting(c) /\ ~Adding(c)
      /\ \A d \in Callers : op[d] # Idle => {"add", op[d].call} \in together
  BY CallFields DEF AddAppend, MayStart
<1>7. \A d \in Callers : ~Inserting(d)
  <2>1. \A d \in Callers : Inserting(d) => {"insert", "add"} \in together
    BY <1>6, CallFields DEF Inserting
  <2> QED BY <2>1 DEF Assumed, UsedInOrder, TypesOK
<1>8. ~Inserting(c)' /\ Adding(c)' /\ op'[c] # Idle
  BY <1>4, <1>5 DEF Inserting, Adding, Idle
<1>9. \A d \in Callers : d # c =>
        /\ Inserting(d)' <=> Inserting(d)
        /\ Adding(d)' <=> Adding(d)
        /\ \A u : Done(d, u)' <=> Done(d, u)
        /\ op'[d] = Idle <=> op[d] = Idle
  BY <1>5, OthersRest
<1>10. \A d \in Callers : ~Inserting(d)'
  BY <1>7, <1>8, <1>9
<1>11. TypesOK'
  BY <1>1, <1>2, <1>5 DEF TypesOK
<1>12. OverlapOK'
  <2>1. Serial => \A d \in Callers : op[d] = Idle
    BY <1>6 DEF Serial
  <2>2. Serial' <=> Serial
    BY DEF Serial
  <2>3. Serial => \A d, e \in Callers : op'[d] # Idle /\ op'[e] # Idle => d = e
    BY <2>1, <1>9
  <2> QED BY <2>2, <2>3, <1>10 DEF OverlapOK
<1>13. ListsOK'
  <2>1. ASSUME NEW d \in Callers, op'[d] # Idle
        PROVE  /\ Distinct(op'[d].left) /\ Members(op'[d].left) \subseteq Members(snapshot')
               /\ op'[d].step \in {"log", "store"} => op'[d].left # <<>>
    <3>1. CASE d = c
      BY <3>1, <1>2, <1>4, <1>5
    <3>2. CASE d # c
      BY <3>2, <2>1, <1>2, <1>5, <1>9 DEF ListsOK
    <3> QED BY <3>1, <3>2
  <2>2. ASSUME NEW d \in Callers, Adding(d)'
        PROVE  /\ First \in Members(op'[d].trees)
               /\ Members(op'[d].trees) \subseteq Members(snapshot')
    <3>1. CASE d = c
      BY <3>1, <1>2, <1>4, <1>5 DEF ListsOK
    <3>2. CASE d # c
      BY <3>2, <2>2, <1>2, <1>5, <1>9 DEF ListsOK
    <3> QED BY <3>1, <3>2
  <2>3. First \in Members(snapshot')
    BY <1>2 DEF ListsOK
  <2> QED BY <2>1, <2>2, <2>3, <1>2 DEF ListsOK
<1>14. RootsOK'
  <2>1. ASSUME NEW u \in Trees, UpToDate(u) PROVE UpToDate(u)'
    BY <2>1, <1>1, <1>7 DEF UpToDate
  <2>2. ASSUME NEW u \in Members(snapshot), Awaited(u) PROVE Awaited(u)'
    BY <2>2, <1>1, <1>5, <1>6, <1>9 DEF Awaited
  <2>3. Awaited(t)'
    <3>1. root[t].data = Empty
      BY <1>1 DEF RootsOK
    <3>2. t \in Members(op'[c].left)
      BY <1>2, <1>4, <1>5
    <3> QED BY <3>1, <3>2, <1>1, <1>8 DEF Awaited
  <2>4. First \in Trees /\ Members(snapshot) \subseteq Trees
    BY DEF Members, TypesOK, Assumed, ForestAssumption
  <2>5. \A u \in Members(snapshot') : UpToDate(u)' \/ Awaited(u)'
    <3>1. ASSUME NEW u \in Members(snapshot) PROVE UpToDate(u)' \/ Awaited(u)'
      BY <2>1, <2>2, <2>4 DEF RootsOK
    <3>2. ASSUME NEW u, u = t PROVE Awaited(u)'
      BY <3>2, <2>3 DEF Awaited
    <3> QED BY <3>1, <3>2, <1>2
  <2>6. UpToDate(First)'
    BY <2>1, <2>4 DEF RootsOK
  <2>7. \A u \in Trees \ Members(snapshot') : root'[u].data = Empty
    BY <1>1, <1>2 DEF RootsOK
  <2> QED BY <2>5, <2>6, <2>7, <1>10 DEF RootsOK
<1>15. ReferenceOK'
  <2>1. ASSUME NEW d \in Callers, Adding(d)', d # c
        PROVE  Adding(d) /\ op'[d] = op[d]
    BY <2>1, <1>5, <1>9
  <2>2. \A x : x \in Members(snapshot) => x \in Members(snapshot')
    BY <1>2
  <2> QED BY <2>1, <2>2, <1>1, <1>4, <1>5 DEF ReferenceOK
<1>16. PointersOK'
  <2>1. ASSUME NEW d \in Callers, Adding(d)', op'[d].step \in {"state", "copy", "store"}
        PROVE  Adding(d) /\ op'[d] = op[d]
    BY <2>1, <1>4, <1>5, <1>9
  <2> QED BY <2>1, <1>1, <1>10 DEF PointersOK
<1> QED BY <1>11, <1>12, <1>13, <1>14, <1>15, <1>16

\* What the other steps of AddTree have in common: a root they store holds what
\* the Inserts wrote, and so does the root of a tree they are done with.
LEMMA AddStepKeeps ==
  ASSUME Assumed, IInv, UNCHANGED <<together, snapshot, inserts, latest>>,
         NEW c \in Callers, Adding(c),
         NEW call \in {Idle} \cup AddOp, Now(c, call),
         logIndex' \in [Trees -> Nat],
         root' \in [Trees -> [data : Map, pointer : Trees \X Nat]],
         \A t \in Trees : \/ root'[t] = root[t]
                          \/ /\ t \in Members(snapshot) /\ op[c].step = "copy"
                             /\ root'[t] = op[c].refRoot,
         \A t \in Members(op[c].left) :
           call = Idle \/ t \notin Members(call.left) => root'[t].data = latest,
         call # Idle =>
           /\ call.trees = op[c].trees /\ Distinct(call.left)
           /\ Members(call.left) \subseteq Members(op[c].left)
           /\ call.step = "store" => call.left # <<>>
           /\ call.step # "choose" =>
                /\ call.reference \in Members(snapshot)
                /\ root[call.reference].data = latest
           /\ call.step \in {"state", "copy", "store"} =>
                /\ call.refRoot.data = latest
                /\ call.refRoot.pointer[2] <= inserts
                /\ \A t \in Trees : root'[t].pointer = call.refRoot.pointer =>
                                      root'[t].data = call.refRoot.data
           /\ call.step = "store" => root'[Head(call.left)].data = latest
  PROVE  IInv'
<1> USE DEF IInv
<1>1. /\ op' \in [Callers -> {Idle} \cup InsertOp \cup AddOp]
      /\ op'[c] = call
      /\ \A d \in Callers : d # c => op'[d] = op[d]
  BY NowIs
<1>2. \A d \in Callers : ~Inserting(d)
  BY AddsApart
<1>3. \A d \in Callers : d # c =>
        /\ Inserting(d)' <=> Inserting(d)
        /\ Adding(d)' <=> Adding(d)
        /\ \A u : Done(d, u)' <=> Done(d, u)
        /\ op'[d] = Idle <=> op[d] = Idle
  BY <1>1, OthersRest
<1>4. /\ ~Inserting(c)' /\ op[c] # Idle
      /\ Adding(c)' <=> call # Idle
      /\ call # Idle => call.step # "log"
  BY <1>1, CallFields DEF Inserting, Adding, Idle, AddOp
<1>5. \A d \in Callers : ~Inserting(d)'
  BY <1>2, <1>3, <1>4
<1>6. op[c].step = "copy" => op[c].refRoot.data = latest
  BY DEF ReferenceOK
<1>7. \A t \in Trees : root[t].data = latest => root'[t].data = latest
  BY <1>6
<1>8. First \in Trees /\ Members(snapshot) \subseteq Trees
  BY DEF Members, TypesOK, Assumed, ForestAssumption
<1>9. TypesOK'
  BY <1>1 DEF TypesOK
<1>10. OverlapOK'
  <2>1. Serial' <=> Serial
    BY DEF Serial
  <2>2. \A d \in Callers : op'[d] # Idle => op[d] # Idle
    BY <1>3, <1>4
  <2> QED BY <2>1, <2>2, <1>5 DEF OverlapOK
<1>11. ListsOK'
  <2>1. /\ Members(op[c].left) \subseteq Members(snapshot)
        /\ First \in Members(op[c].trees)
        /\ Members(op[c].trees) \subseteq Members(snapshot)
    BY <1>4 DEF ListsOK
  <2>2. ASSUME NEW d \in Callers, op'[d] # Idle
        PROVE  /\ Distinct(op'[d].left) /\ Members(op'[d].left) \subseteq Members(snapshot)
               /\ op'[d].step \in {"log", "store"} => op'[d].left # <<>>
    <3>1. CASE d = c
      BY <3>1, <2>1, <2>2, <1>1, <1>4
    <3>2. CASE d # c
      BY <3>2, <2>2, <1>1, <1>3 DEF ListsOK
    <3> QED BY <3>1, <3>2
  <2>3. ASSUME NEW d \in Callers, Adding(d)'
        PROVE  /\ First \in Members(op'[d].trees)
               /\ Members(op'[d].trees) \subseteq Members(snapshot)
    <3>1. CASE d = c
      BY <3>1, <2>1, <2>3, <1>1, <1>4
    <3>2. CASE d # c
      BY <3>2, <2>3, <1>1, <1>3 DEF ListsOK
    <3> QED BY <3>1, <3>2
  <2> QED BY <2>2, <2>3 DEF ListsOK
<1>12. RootsOK'
  <2>1. ASSUME NEW t \in Trees
        PROVE  /\ UpToDate(t) <=> root[t].data = latest
               /\ UpToDate(t)' <=> root'[t].data = latest
    <3>1. UpToDate(t) <=> root[t].data = latest
      BY <1>2, UpToDateIs
    <3>2. root'[t].data \in Map /\ latest \in Map
      BY DEF TypesOK
    <3>3. UpToDate(t)' <=> \A k \in Keys : root'[t].data[k] = latest[k]
      BY <1>5 DEF UpToDate
    <3> QED BY <3>1, <3>2, <3>3 DEF Map
  <2>2. UpToDate(First)'
    BY <2>1, <1>7, <1>8 DEF RootsOK
  <2>3. ASSUME NEW t \in Members(snapshot) PROVE UpToDate(t)' \/ Awaited(t)'
    <3>1. t \in Trees
      BY <1>8
    <3>2. CASE UpToDate(t)
      BY <3>1, <3>2, <2>1, <1>7
    <3>3. CASE root'[t] # root[t]
      BY <3>1, <3>3, <2>1, <1>6
    <3>4. CASE root'[t] = root[t] /\ Awaited(t)
      <4>1. root'[t].data = Empty
        BY <3>4 DEF Awaited
      <4>2. PICK d \in Callers : Adding(d) /\ t \in Members(op[d].left)
        BY <3>4 DEF Awaited
      <4>3. CASE d # c
        BY <4>1, <4>2, <4>3, <1>1, <1>3 DEF Awaited
      <4>4. CASE d = c /\ call # Idle /\ t \in Members(call.left)
        BY <4>1, <4>4, <1>1, <1>4 DEF Awaited
      <4>5. CASE d = c /\ (call = Idle \/ t \notin Members(call.left))
        BY <4>2, <4>5, <3>1, <2>1
      <4> QED BY <4>3, <4>4, <4>5
    <3> QED BY <3>2, <3>3, <3>4 DEF RootsOK
  <2>4. \A t \in Trees \ Members(snapshot) : root'[t].data = Empty
    BY DEF RootsOK
  <2> QED BY <2>2, <2>3, <2>4, <1>5 DEF RootsOK
<1>13. ReferenceOK'
  <2>1. ASSUME NEW d \in Callers, Adding(d)'
        PROVE  /\ op'[d].step # "choose" =>
                    /\ op'[d].reference \in Members(snapshot)
                    /\ root'[op'[d].reference].data = latest
               /\ op'[d].step \in {"state", "copy", "store"} =>
                    op'[d].refRoot.data = latest
               /\ op'[d].step = "store" => root'[Head(op'[d].left)].data = latest
    <3>1. CASE d = c
      <4>1. call # Idle /\ op'[d] = call
        BY <3>1, <2>1, <1>1, <1>4
      <4> QED BY <4>1, <1>7, <1>8
    <3>2. CASE d # c
      <4>1. Adding(d) /\ op'[d] = op[d] /\ op[d] # Idle /\ op[d].left \in Seq(Trees)
        BY <3>2, <2>1, <1>1, <1>3, CallFields
      <4>2. op[d].step = "store" => Head(op[d].left) \in Trees
        <5>1. op[d].step = "store" => op[d].left # <<>>
          BY <4>1 DEF ListsOK
        <5> QED BY <4>1, <5>1, MembersOfTail
      <4>3. /\ op[d].step # "choose" =>
                 /\ op[d].reference \in Members(snapshot)
                 /\ root[op[d].reference].data = latest
            /\ op[d].step \in {"state", "copy", "store"} => op[d].refRoot.data = latest
            /\ op[d].step = "store" => root[Head(op[d].left)].data = latest
        BY <4>1 DEF ReferenceOK
      <4> HIDE DEF IInv
      <4> QED BY <4>1, <4>2, <4>3, <1>7, <1>8
    <3> QED BY <3>1, <3>2
  <2> QED BY <2>1 DEF ReferenceOK
<1>14. PointersOK'
  <2> DEFINE copied(t) == op[c].step = "copy" /\ root'[t] = op[c].refRoot
  <2>1. ASSUME NEW t \in Trees PROVE root'[t] = root[t] \/ copied(t)
    OBVIOUS
  <2>2. op[c].step = "copy" =>
          /\ op[c].refRoot.pointer[2] <= inserts
          /\ \A t \in Trees : root[t].pointer = op[c].refRoot.pointer =>
                                root[t].data = op[c].refRoot.data
    BY DEF PointersOK
  <2>3. /\ \A t, u \in Trees :
             root[t].pointer = root[u].pointer => root[t].data = root[u].data
        /\ \A t \in Trees : root[t].pointer[2] <= inserts
    BY DEF PointersOK
  <2>4. \A t \in Trees : root'[t].pointer[2] <= inserts
    BY <2>1, <2>2, <2>3
  <2>5. ASSUME NEW t \in Trees, NEW u \in Trees,
               root'[t].pointer = root'[u].pointer
        PROVE  root'[t].data = root'[u].data
    <3> HIDE DEF IInv
    <3>1. CASE root'[t] = root[t] /\ root'[u] = root[u]
      BY <3>1, <2>3, <2>5
    <3>2. CASE root'[t] = root[t] /\ copied(u)
      BY <3>2, <2>2, <2>5
    <3>3. CASE copied(t) /\ root'[u] = root[u]
      BY <3>3, <2>2, <2>5
    <3>4. CASE copied(t) /\ copied(u)
      BY <3>4
    <3> HIDE DEF copied
    <3> QED BY <3>1, <3>2, <3>3, <3>4, <2>1
  <2>6. ASSUME NEW d \in Callers, Adding(d)', op'[d].step \in {"state", "copy", "store"}
        PROVE  /\ op'[d].refRoot.pointer[2] <= inserts
               /\ \A t \in Trees : root'[t].pointer = op'[d].refRoot.pointer =>
                                     root'[t].data = op'[d].refRoot.data
    <3>1. CASE d = c
      <4>1. call # Idle /\ op'[d] = call
        BY <3>1, <2>6, <1>1, <1>4
      <4> QED BY <4>1, <2>6
    <3>2. CASE d # c
      <4>1. Adding(d) /\ op'[d] = op[d] /\ op[d].step \in {"state", "copy", "store"}
        BY <3>2, <2>6, <1>1, <1>3
      <4>2. op[d].refRoot.data = latest
        BY <4>1 DEF ReferenceOK
      <4>3. /\ op[d].refRoot.pointer[2] <= inserts
            /\ \A t \in Trees : root[t].pointer = op[d].refRoot.pointer =>
                                  root[t].data = op[d].refRoot.data
        BY <4>1 DEF PointersOK
      <4>4. \A t \in Trees : copied(t) => root'[t].data = latest
        BY <1>6
      <4> QED BY <4>1, <4>2, <4>3, <4>4, <2>1
    <3> QED BY <3>1, <3>2
  <2> QED BY <2>4, <2>6, <2>5, <1>5 DEF PointersOK
<1> QED BY <1>9, <1>10, <1>11, <1>12, <1>13, <1>14

\* What an AddTree carries at each of its steps.
LEMMA AddCarries ==
  ASSUME Assumed, IInv, NEW c \in Callers, Adding(c)
  PROVE  /\ op[c] \in AddOp /\ op[c] # Idle
         /\ op[c].left \in Seq(Trees) /\ op[c].trees \in Seq(Trees)
         /\ Distinct(op[c].left) /\ First \in Members(op[c].trees)
         /\ Members(op[c].left) \subseteq Members(snapshot)
         /\ Members(op[c].trees) \subseteq Members(snapshot)
         /\ Members(snapshot) \subseteq Trees
<1>1. Members(snapshot) \subseteq Trees
  BY DEF Members, IInv, TypesOK
<1>2. op[c] \in AddOp /\ op[c] # Idle
  BY CallFields DEF IInv
<1> QED BY <1>1, <1>2 DEF IInv, ListsOK, AddOp

\* A tree that holds anything holds what the Inserts wrote.
LEMMA HoldsAll ==
  ASSUME Assumed, IInv, NEW c \in Callers, Adding(c), NEW t \in Members(snapshot),
         Holds(t)
  PROVE  root[t].data = latest
<1>1. t \in Trees /\ UpToDate(t)
  BY AddCarries DEF IInv, RootsOK, Awaited, Holds
<1> QED BY <1>1, AddsApart, UpToDateIs DEF IInv

LEMMA ChooseReferenceKeeps ==
  ASSUME Assumed, IInv, UNCHANGED together, NEW c \in Callers, NEW fastest \in Trees,
         ChooseReference(c, fastest)
  PROVE  IInv'
<1> DEFINE trees == op[c].trees
           held  == {i \in 1..Len(trees) : Holds(trees[i])}
           lowest == CHOOSE i \in held : \A j \in held : i <= j
           first == IF held = {} THEN trees[1] ELSE trees[lowest]
           reference == IF Holds(fastest) THEN fastest ELSE first
           call == [op[c] EXCEPT !.reference = reference, !.step = "load"]
<1>1. /\ Adding(c) /\ op[c].step = "choose" /\ fastest \in Members(snapshot)
      /\ Now(c, call)
      /\ UNCHANGED <<together, snapshot, root, logIndex, logged, inserts, latest>>
  BY DEF ChooseReference, Adding
<1>2. /\ op[c] \in AddOp /\ trees \in Seq(Trees) /\ Distinct(op[c].left)
      /\ First \in Members(trees) /\ Members(trees) \subseteq Members(snapshot)
      /\ Members(snapshot) \subseteq Trees
  BY <1>1, AddCarries
<1> HIDE DEF trees
<1>3. Len(trees) \in Nat /\ 1 \in 1..Len(trees)
  BY <1>2 DEF Members
<1>4. \A i \in 1..Len(trees) : trees[i] \in Members(snapshot)
  BY <1>2 DEF Members
<1>5. first \in Members(snapshot) /\ root[first].data = latest
  <2>1. CASE held = {}
    <3>1. PICK i \in 1..Len(trees) : First = trees[i]
      BY <1>2 DEF Members
    <3>2. root[First].data = Empty /\ root[trees[1]].data = Empty
      BY <2>1, <3>1, <1>3 DEF Holds
    <3>3. root[First].data = latest
      <4>1. First \in Trees
        BY DEF Assumed, ForestAssumption
      <4> QED BY <4>1, <1>1, AddsApart, UpToDateIs DEF IInv, RootsOK
    <3>4. first = trees[1]
      BY <2>1
    <3> QED BY <3>2, <3>3, <3>4, <1>3, <1>4
  <2>2. CASE held # {}
    <3>1. held \in SUBSET Nat
      BY <1>3
    <3> HIDE DEF held
    <3>2. \E i \in held : \A j \in held : i <= j
      BY <2>2, <3>1, Smallest
    <3>3. lowest \in held
      BY <3>2
    <3> HIDE DEF lowest
    <3>4. lowest \in 1..Len(trees) /\ Holds(trees[lowest])
      BY <3>3 DEF held
    <3>5. first = trees[lowest]
      BY <2>2
    <3> QED BY <3>4, <3>5, <1>1, <1>4, HoldsAll
  <2> QED BY <2>1, <2>2
<1> HIDE DEF first
<1>6. reference \in Members(snapshot) /\ root[reference].data = latest
  BY <1>1, <1>5, HoldsAll
<1> HIDE DEF reference
<1>7. call \in AddOp
  BY <1>2, <1>6 DEF AddOp
<1>8. /\ call.call = "add" /\ call.trees = op[c].trees /\ call.left = op[c].left
      /\ call.step = "load" /\ call.reference = reference
  BY <1>1, <1>2 DEF AddOp, Adding
<1> HIDE DEF call
<1>9. logIndex' \in [Trees -> Nat]
      /\ root' \in [Trees -> [data : Map, pointer : Trees \X Nat]]
  BY <1>1 DEF IInv, TypesOK
<1>10. call # Idle
  BY <1>8 DEF Idle
<1> QED BY <1>1, <1>2, <1>6, <1>7, <1>8, <1>9, <1>10, AddStepKeeps

LEMMA LoadReferenceKeeps ==
  ASSUME Assumed, IInv, UNCHANGED together, NEW c \in Callers, LoadReference(c)
  PROVE  IInv'
<1> DEFINE call == [op[c] EXCEPT !.refRoot = root[op[c].reference], !.step = "state"]
<1>1. /\ Adding(c) /\ op[c].step = "load" /\ Now(c, call)
      /\ UNCHANGED <<together, snapshot, root, logIndex, logged, inserts, latest>>
  BY DEF LoadReference, Adding
<1>2. /\ op[c] \in AddOp /\ Distinct(op[c].left) /\ Members(snapshot) \subseteq Trees
  BY <1>1, AddCarries
<1>3. /\ op[c].reference \in Members(snapshot) /\ op[c].reference \in Trees
      /\ root[op[c].reference].data = latest
  BY <1>1, <1>2 DEF IInv, ReferenceOK
<1>4. root[op[c].reference] \in [data : Map, pointer : Trees \X Nat]
  BY <1>3 DEF IInv, TypesOK
<1>5. call \in AddOp
  BY <1>2, <1>4 DEF AddOp
<1>6. /\ call.call = "add" /\ call.trees = op[c].trees /\ call.left = op[c].left
      /\ call.step = "state" /\ call.reference = op[c].reference
      /\ call.refRoot = root[op[c].reference]
  BY <1>1, <1>2 DEF AddOp, Adding
<1> HIDE DEF call
<1>7. logIndex' \in [Trees -> Nat]
      /\ root' \in [Trees -> [data : Map, pointer : Trees \X Nat]]
  BY <1>1 DEF IInv, TypesOK
<1>8. call # Idle
  BY <1>6 DEF Idle
<1>9. /\ call.refRoot.pointer[2] <= inserts
      /\ \A t \in Trees : root[t].pointer = call.refRoot.pointer =>
                            root[t].data = call.refRoot.data
  BY <1>3, <1>6 DEF IInv, PointersOK
<1> QED BY <1>1, <1>2, <1>3, <1>5, <1>6, <1>7, <1>8, <1>9, AddStepKeeps

LEMMA LoadLogStateKeeps ==
  ASSUME Assumed, IInv, UNCHANGED together, NEW c \in Callers, LoadLogState(c)
  PROVE  IInv'
<1> DEFINE call == [op[c] EXCEPT !.refIndex = logIndex[op[c].reference], !.step = "copy"]
<1>1. /\ Adding(c) /\ op[c].step = "state" /\ Now(c, call)
      /\ UNCHANGED <<together, snapshot, root, logIndex, logged, inserts, latest>>
  BY DEF LoadLogState, Adding
<1>2. /\ op[c] \in AddOp /\ Distinct(op[c].left) /\ Members(snapshot) \subseteq Trees
  BY <1>1, AddCarries
<1>3. /\ op[c].reference \in Members(snapshot) /\ op[c].reference \in Trees
      /\ root[op[c].reference].data = latest /\ op[c].refRoot.data = latest
  BY <1>1, <1>2 DEF IInv, ReferenceOK
<1>4. logIndex[op[c].reference] \in Nat
  BY <1>3 DEF IInv, TypesOK
<1>5. call \in AddOp
  BY <1>2, <1>4 DEF AddOp
<1>6. /\ call.call = "add" /\ call.trees = op[c].trees /\ call.left = op[c].left
      /\ call.step = "copy" /\ call.reference = op[c].reference
      /\ call.refRoot = op[c].refRoot
  BY <1>1, <1>2 DEF AddOp, Adding
<1> HIDE DEF call
<1>7. logIndex' \in [Trees -> Nat]
      /\ root' \in [Trees -> [data : Map, pointer : Trees \X Nat]]
  BY <1>1 DEF IInv, TypesOK
<1>8. call # Idle
  BY <1>6 DEF Idle
<1>9. /\ call.refRoot.pointer[2] <= inserts
      /\ \A t \in Trees : root[t].pointer = call.refRoot.pointer =>
                            root[t].data = call.refRoot.data
  BY <1>1, <1>6 DEF IInv, PointersOK
<1> QED BY <1>1, <1>2, <1>3, <1>5, <1>6, <1>7, <1>8, <1>9, AddStepKeeps

\* A tree that is passed over holds what the Inserts wrote.
LEMMA SkipKeeps ==
  ASSUME Assumed, IInv, UNCHANGED together, NEW c \in Callers, Skip(c)
  PROVE  IInv'
<1> DEFINE call == [op[c] EXCEPT !.left = Tail(@)]
           t == Head(op[c].left)
<1>1. /\ Adding(c) /\ op[c].step = "copy" /\ Now(c, call) /\ op[c].left # <<>>
      /\ t = op[c].reference \/ root[t].pointer = op[c].refRoot.pointer
      /\ UNCHANGED <<together, snapshot, root, logIndex, logged, inserts, latest>>
  BY DEF Skip, Adding
<1>2. /\ op[c] \in AddOp /\ op[c].left \in Seq(Trees) /\ Distinct(op[c].left)
      /\ Members(snapshot) \subseteq Trees
  BY <1>1, AddCarries
<1>3. /\ t \in Trees /\ Tail(op[c].left) \in Seq(Trees)
      /\ \A u : u \in Members(op[c].left) <=> u = t \/ u \in Members(Tail(op[c].left))
      /\ Distinct(Tail(op[c].left))
  BY <1>1, <1>2, MembersOfTail
<1> HIDE DEF t
<1>4. /\ op[c].reference \in Members(snapshot)
      /\ root[op[c].reference].data = latest /\ op[c].refRoot.data = latest
  BY <1>1 DEF IInv, ReferenceOK
<1>5. /\ op[c].refRoot.pointer[2] <= inserts
      /\ \A u \in Trees : root[u].pointer = op[c].refRoot.pointer =>
                            root[u].data = op[c].refRoot.data
  BY <1>1 DEF IInv, PointersOK
<1>6. root[t].data = latest
  BY <1>1, <1>3, <1>4, <1>5
<1>7. call \in AddOp
  BY <1>2, <1>3 DEF AddOp
<1>8. /\ call.call = "add" /\ call.trees = op[c].trees /\ call.left = Tail(op[c].left)
      /\ call.step = "copy" /\ call.reference = op[c].reference
      /\ call.refRoot = op[c].refRoot
  BY <1>1, <1>2 DEF AddOp, Adding
<1> HIDE DEF call
<1>9. logIndex' \in [Trees -> Nat]
      /\ root' \in [Trees -> [data : Map, pointer : Trees \X Nat]]
  BY <1>1 DEF IInv, TypesOK
<1>10. call # Idle
  BY <1>8 DEF Idle
<1> QED BY <1>1, <1>2, <1>3, <1>4, <1>5, <1>6, <1>7, <1>8, <1>9, <1>10, AddStepKeeps

LEMMA CopyRootKeeps ==
  ASSUME Assumed, IInv, UNCHANGED together, NEW c \in Callers, CopyRoot(c)
  PROVE  IInv'
<1> DEFINE call == [op[c] EXCEPT !.step = "store"]
           t == Head(op[c].left)
<1>1. /\ Adding(c) /\ op[c].step = "copy" /\ Now(c, call) /\ op[c].left # <<>>
      /\ root' = [root EXCEPT ![t] = op[c].refRoot]
      /\ UNCHANGED <<together, snapshot, logIndex, logged, inserts, latest>>
  BY DEF CopyRoot, Adding
<1>2. /\ op[c] \in AddOp /\ op[c].left \in Seq(Trees) /\ Distinct(op[c].left)
      /\ Members(op[c].left) \subseteq Members(snapshot)
      /\ Members(snapshot) \subseteq Trees
  BY <1>1, AddCarries
<1>3. t \in Members(op[c].left) /\ t \in Trees
  BY <1>1, <1>2, MembersOfTail
<1>4. /\ op[c].reference \in Members(snapshot)
      /\ root[op[c].reference].data = latest /\ op[c].refRoot.data = latest
  BY <1>1 DEF IInv, ReferenceOK
<1>5. /\ op[c].refRoot.pointer[2] <= inserts
      /\ \A u \in Trees : root[u].pointer = op[c].refRoot.pointer =>
                            root[u].data = op[c].refRoot.data
  BY <1>1 DEF IInv, PointersOK
<1>6. op[c].refRoot \in [data : Map, pointer : Trees \X Nat]
  BY <1>2 DEF AddOp
<1>7. /\ root' \in [Trees -> [data : Map, pointer : Trees \X Nat]]
      /\ root'[t] = op[c].refRoot
      /\ \A u \in Trees : u # t => root'[u] = root[u]
  BY <1>1, <1>3, <1>6 DEF IInv, TypesOK
<1>8. call \in AddOp
  BY <1>2 DEF AddOp
<1>9. /\ call.call = "add" /\ call.trees = op[c].trees /\ call.left = op[c].left
      /\ call.step = "store" /\ call.reference = op[c].reference
      /\ call.refRoot = op[c].refRoot
  BY <1>1, <1>2 DEF AddOp, Adding
<1> HIDE DEF call
<1>10. root'[Head(call.left)].data = latest
  BY <1>4, <1>7, <1>9
<1> HIDE DEF t
<1>11. logIndex' \in [Trees -> Nat]
  BY <1>1 DEF IInv, TypesOK
<1>12. call # Idle
  BY <1>9 DEF Idle
<1>13. \A u \in Trees : \/ root'[u] = root[u]
                        \/ /\ u \in Members(snapshot) /\ op[c].step = "copy"
                           /\ root'[u] = op[c].refRoot
  BY <1>1, <1>2, <1>3, <1>7
<1>14. \A u \in Trees : root'[u].pointer = call.refRoot.pointer =>
                          root'[u].data = call.refRoot.data
  BY <1>5, <1>7, <1>9
<1>15. UNCHANGED <<together, snapshot, inserts, latest>>
  BY <1>1
<1>16. \A u \in Members(op[c].left) :
         call = Idle \/ u \notin Members(call.left) => root'[u].data = latest
  BY <1>9, <1>12
<1>17. /\ call.trees = op[c].trees /\ Distinct(call.left)
       /\ Members(call.left) \subseteq Members(op[c].left) /\ call.left # <<>>
       /\ call.reference \in Members(snapshot)
       /\ root[call.reference].data = latest /\ call.refRoot.data = latest
       /\ call.refRoot.pointer[2] <= inserts
  BY <1>1, <1>2, <1>4, <1>5, <1>9
<1> QED BY <1>1, <1>7, <1>8, <1>10, <1>11, <1>13, <1>14, <1>15, <1>16, <1>17,
           AddStepKeeps

LEMMA CopyIndexKeeps ==
  ASSUME Assumed, IInv, UNCHANGED together, NEW c \in Callers, CopyIndex(c)
  PROVE  IInv'
<1> DEFINE call == [op[c] EXCEPT !.left = Tail(@), !.step = "copy"]
           t == Head(op[c].left)
<1>1. /\ Adding(c) /\ op[c].step = "store" /\ Now(c, call)
      /\ logIndex' = [logIndex EXCEPT ![t] = op[c].refIndex]
      /\ UNCHANGED <<together, snapshot, root, logged, inserts, latest>>
  BY DEF CopyIndex, Adding
<1>2. /\ op[c] \in AddOp /\ op[c].left \in Seq(Trees) /\ Distinct(op[c].left)
      /\ op[c].left # <<>> /\ op[c].refIndex \in Nat
  BY <1>1, AddCarries DEF IInv, ListsOK, AddOp
<1>3. /\ t \in Trees /\ Tail(op[c].left) \in Seq(Trees)
      /\ \A u : u \in Members(op[c].left) <=> u = t \/ u \in Members(Tail(op[c].left))
      /\ Distinct(Tail(op[c].left))
  BY <1>1, <1>2, MembersOfTail
<1>4. /\ op[c].reference \in Members(snapshot)
      /\ root[op[c].reference].data = latest /\ op[c].refRoot.data = latest
      /\ root[t].data = latest
  BY <1>1 DEF IInv, ReferenceOK
<1>5. /\ op[c].refRoot.pointer[2] <= inserts
      /\ \A u \in Trees : root[u].pointer = op[c].refRoot.pointer =>
                            root[u].data = op[c].refRoot.data
  BY <1>1 DEF IInv, PointersOK
<1>6. call \in AddOp
  BY <1>2, <1>3 DEF AddOp
<1>7. /\ call.call = "add" /\ call.trees = op[c].trees /\ call.left = Tail(op[c].left)
      /\ call.step = "copy" /\ call.reference = op[c].reference
      /\ call.refRoot = op[c].refRoot
  BY <1>1, <1>2 DEF AddOp, Adding
<1> HIDE DEF call, t
<1>8. logIndex' \in [Trees -> Nat]
      /\ root' \in [Trees -> [data : Map, pointer : Trees \X Nat]]
  BY <1>1, <1>2, <1>3 DEF IInv, TypesOK
<1>9. call # Idle
  BY <1>7 DEF Idle
<1> QED BY <1>1, <1>2, <1>3, <1>4, <1>5, <1>6, <1>7, <1>8, <1>9, AddStepKeeps

LEMMA AddReturnKeeps ==
  ASSUME Assumed, IInv, UNCHANGED together, NEW c \in Callers, AddReturn(c)
  PROVE  IInv'
<1>1. /\ Adding(c) /\ op[c].left = <<>> /\ Now(c, Idle)
      /\ UNCHANGED <<together, snapshot, root, logIndex, logged, inserts, latest>>
  BY DEF AddReturn, Adding
<1>2. logIndex' \in [Trees -> Nat]
      /\ root' \in [Trees -> [data : Map, pointer : Trees \X Nat]]
  BY <1>1 DEF IInv, TypesOK
<1>3. \A t : t \notin Members(op[c].left)
  BY <1>1, NoMembers
<1> QED BY <1>1, <1>2, <1>3, AddStepKeeps

-----------------------------------------------------------------------------
(* The invariant holds, and what it says when no call runs *)

LEMMA Establishes == ASSUME Assumed, Init PROVE IInv
<1>1. /\ together \in Disciplines /\ snapshot = <<First>> /\ inserts = 0
      /\ root = [t \in Trees |-> [data |-> Empty, pointer |-> <<t, 0>>]]
      /\ logIndex = [t \in Trees |-> 0]
      /\ op = [c \in Callers |-> Idle] /\ latest = Empty
      /\ First \in Trees
  BY DEF Init, Assumed, ForestAssumption, UsedInOrder, Empty
<1>2. Empty \in Map
  BY DEF Empty, Map
<1>3. /\ \A c \in Callers : op[c] = Idle /\ ~Inserting(c) /\ ~Adding(c)
      /\ \A t \in Trees : root[t].data = Empty /\ root[t].pointer = <<t, 0>>
  BY <1>1 DEF Idle, Inserting, Adding
<1> HIDE DEF Empty
<1>4. TypesOK
  BY <1>1, <1>2 DEF TypesOK
<1>5. OverlapOK
  BY <1>3 DEF OverlapOK
<1>6. Members(snapshot) = {First} /\ Distinct(snapshot)
  BY <1>1 DEF Members, Distinct
<1>7. ListsOK
  BY <1>3, <1>6 DEF ListsOK
<1>8. \A t \in Trees : UpToDate(t)
  BY <1>1, <1>3 DEF UpToDate
<1>9. RootsOK
  BY <1>1, <1>3, <1>6, <1>8 DEF RootsOK
<1>10. ReferenceOK
  BY <1>3 DEF ReferenceOK
<1>11. PointersOK
  BY <1>1, <1>3 DEF PointersOK
<1> QED BY <1>4, <1>5, <1>7, <1>9, <1>10, <1>11 DEF IInv

LEMMA StutterKeeps == ASSUME IInv, UNCHANGED vars PROVE IInv'
<1>1. /\ together' = together /\ snapshot' = snapshot /\ root' = root
      /\ logIndex' = logIndex /\ op' = op /\ inserts' = inserts
      /\ latest' = latest
  BY DEF vars
<1>2. TypesOK' /\ OverlapOK'
  BY <1>1 DEF IInv, TypesOK, OverlapOK, Inserting, Adding, Serial
<1>3. ListsOK' /\ ReferenceOK'
  BY <1>1 DEF IInv, ListsOK, ReferenceOK, Adding
<1>4. RootsOK'
  BY <1>1 DEF IInv, RootsOK, UpToDate, Awaited, Inserting, Adding, Done
<1>5. PointersOK'
  BY <1>1 DEF IInv, PointersOK, Inserting, Adding, Done
<1> QED BY <1>2, <1>3, <1>4, <1>5 DEF IInv

LEMMA StepKeeps == ASSUME Assumed, IInv, [Next]_vars PROVE IInv'
<1>1. CASE UNCHANGED vars
  BY <1>1, StutterKeeps
<1>2. ASSUME NEW c \in Callers, UNCHANGED together, Insert(c) PROVE IInv'
  BY <1>2, InsertCallKeeps, InsertRootKeeps, InsertLogKeeps, InsertReturnKeeps
     DEF Insert
<1>3. ASSUME NEW c \in Callers, UNCHANGED together, AddTree(c) PROVE IInv'
  BY <1>3, AddAppendKeeps, ChooseReferenceKeeps, LoadReferenceKeeps,
     LoadLogStateKeeps, SkipKeeps, CopyRootKeeps, CopyIndexKeeps, AddReturnKeeps
     DEF AddTree, synchronizeTrees
<1> QED BY <1>1, <1>2, <1>3 DEF Next

LEMMA QuietHolds ==
  ASSUME Assumed, IInv PROVE Retained /\ Agreement
<1>1. SUFFICES ASSUME Quiet
               PROVE  \A t \in Members(snapshot) : root[t].data = latest
  BY <1>1 DEF Retained, Agreement
<1>2. \A c \in Callers : ~Inserting(c) /\ ~Adding(c)
  BY <1>1, CallFields DEF Quiet, IInv
<1>3. Members(snapshot) \subseteq Trees
  BY DEF Members, IInv, TypesOK
<1>4. \A t \in Members(snapshot) : UpToDate(t)
  BY <1>2 DEF IInv, RootsOK, Awaited
<1> QED BY <1>2, <1>3, <1>4, UpToDateIs DEF IInv

\* When no call runs, every tree of the forest holds what the returned Inserts
\* wrote, and so the same as every other: whichever Inserts of different keys
\* overlapped, whichever AddTrees overlapped, and whichever tree was the
\* fastest when a new one was synchronised (Insert, AddTree,
\* synchronizeTrees).
THEOREM InsertsReachAll ==
  ASSUME Assumed PROVE Spec => [](Retained /\ Agreement)
<1>1. Init => IInv
  BY Establishes
<1>2. IInv /\ [Next]_vars => IInv'
  BY StepKeeps
<1>3. IInv => Retained /\ Agreement
  BY QuietHolds
<1> QED BY <1>1, <1>2, <1>3, PTL DEF Spec

-----------------------------------------------------------------------------
(* What the calls write, step by step *)

LEMMA NowDoes ==
  ASSUME TypesOK, NEW c \in Callers, NEW call, Now(c, call)
  PROVE  op'[c] = call /\ \A d \in Callers : d # c => op'[d] = op[d]
<1> DEFINE T == {Idle} \cup InsertOp \cup AddOp
<1>1. op \in [Callers -> T] /\ op' = [op EXCEPT ![c] = call]
  BY DEF TypesOK, Now
<1> HIDE DEF T
<1> QED BY <1>1

LEMMA InsertCallDoes ==
  ASSUME Assumed, IInv, NEW c \in Callers, UNCHANGED together, InsertCall(c)
  PROVE  /\ inserts' = inserts + 1 /\ inserts < MaxInserts
         /\ UNCHANGED <<snapshot, root, logIndex, logged, latest>>
         /\ op[c] = Idle /\ op'[c].call = "insert" /\ op'[c].step = "root"
         /\ op'[c].serial = inserts + 1 /\ op'[c].left = snapshot
         /\ \A d \in Callers : d # c => op'[d] = op[d]
         /\ \A d \in Callers : ~Adding(d)
<1>1. PICK k \in Keys, v \in Values :
        Now(c, [call |-> "insert", serial |-> inserts', key |-> k,
                value |-> v, left |-> snapshot, step |-> "root"])
  BY DEF InsertCall, Assumed, ForestAssumption
<1>2. /\ inserts' = inserts + 1 /\ inserts \in Nat /\ inserts < MaxInserts
      /\ UNCHANGED <<snapshot, root, logIndex, logged, latest>>
  BY DEF InsertCall, IInv, TypesOK
<1> DEFINE call == [call |-> "insert", serial |-> inserts', key |-> k,
                    value |-> v, left |-> snapshot, step |-> "root"]
<1>4. /\ call.call = "insert" /\ call.serial = inserts + 1
      /\ call.left = snapshot /\ call.step = "root"
  BY <1>2
<1>5. Now(c, call)
  BY <1>1
<1> HIDE DEF call
<1>6. op'[c] = call /\ \A d \in Callers : d # c => op'[d] = op[d]
  BY <1>5, NowDoes DEF IInv
<1>7. /\ op[c] = Idle
      /\ \A d \in Callers : op[d] # Idle => {"insert", op[d].call} \in together
  BY DEF InsertCall, MayStart
<1>8. \A d \in Callers : ~Adding(d)
  BY <1>7, CallFields DEF Assumed, UsedInOrder, IInv, TypesOK, Adding
<1> QED BY <1>2, <1>4, <1>6, <1>7, <1>8

LEMMA InsertRootDoes ==
  ASSUME IInv, NEW c \in Callers, InsertRoot(c)
  PROVE  /\ Inserting(c) /\ op[c].step = "root" /\ op'[c].call = "insert"
         /\ op'[c].step = "log" /\ op'[c].serial = op[c].serial
         /\ op'[c].key = op[c].key /\ op'[c].left = op[c].left
         /\ \A d \in Callers : d # c => op'[d] = op[d]
         /\ op[c].key \in Keys /\ Head(op[c].left) \in Trees
         /\ \A u \in Trees : u # Head(op[c].left) => root'[u] = root[u]
         /\ \A l \in Keys, u \in Trees :
              l # op[c].key => root'[u].data[l] = root[u].data[l]
         /\ UNCHANGED <<snapshot, logIndex, logged, inserts, latest>>
<1>1. /\ Inserting(c) /\ op[c].left # <<>> /\ op[c].step = "root"
      /\ UNCHANGED <<snapshot, logIndex, logged, inserts, latest>>
  BY DEF InsertRoot, Inserting
<1>2. /\ op[c] \in InsertOp /\ op[c].key \in Keys /\ op[c].value \in Values
      /\ op[c].left \in Seq(Trees) /\ op[c].serial \in Nat
  BY <1>1, CallFields DEF InsertOp, IInv
<1> DEFINE t == Head(op[c].left)
           k == op[c].key
           v == op[c].value
           p == <<t, op[c].serial>>
           call == [op[c] EXCEPT !.step = "log"]
<1>3. t \in Trees /\ p \in Trees \X Nat
  BY <1>1, <1>2, MembersOfTail
<1>5. /\ call.call = "insert" /\ call.serial = op[c].serial /\ call.key = k
      /\ call.left = op[c].left /\ call.step = "log"
  BY <1>1, <1>2 DEF InsertOp, Inserting
<1>6. Now(c, call) /\ root' = Written(t, k, v, p)
  BY DEF InsertRoot, Written
<1>7. k \in Keys /\ v \in Values
  BY <1>2
<1> HIDE DEF call, t, p, k, v
<1>8. op'[c] = call /\ \A d \in Callers : d # c => op'[d] = op[d]
  BY <1>6, NowDoes DEF IInv
<1>9. /\ \A u \in Trees : u # t => root'[u] = root[u]
      /\ \A l \in Keys : l # k => root'[t].data[l] = root[t].data[l]
  BY <1>3, <1>6, <1>7, RootWritten DEF IInv
<1>10. \A l \in Keys, u \in Trees : l # k => root'[u].data[l] = root[u].data[l]
  BY <1>9
<1> QED BY <1>1, <1>2, <1>3, <1>5, <1>8, <1>9, <1>10 DEF t, k

LEMMA InsertLogDoes ==
  ASSUME IInv, NEW c \in Callers, InsertLog(c)
  PROVE  /\ Inserting(c) /\ op[c].step = "log" /\ op'[c].call = "insert"
         /\ op'[c].step = "root" /\ op'[c].serial = op[c].serial
         /\ op'[c].left = Tail(op[c].left)
         /\ \A d \in Callers : d # c => op'[d] = op[d]
         /\ op[c].key \in Keys /\ op[c].value \in Values
         /\ Head(op[c].left) \in Members(op[c].left)
         /\ Head(op[c].left) \in Members(snapshot)
         /\ Head(op[c].left) \in Trees
         /\ \A u : u \in Members(op[c].left)
                     <=> u = Head(op[c].left) \/ u \in Members(op'[c].left)
         /\ Head(op[c].left) \notin Members(op'[c].left)
         /\ UNCHANGED <<snapshot, root, inserts, latest>>
<1>1. /\ Inserting(c) /\ op[c].step = "log"
      /\ UNCHANGED <<snapshot, root, inserts, latest>>
  BY DEF InsertLog, Inserting
<1>2. op[c] # Idle
  BY <1>1, CallFields DEF IInv
<1>3. /\ op[c] \in InsertOp /\ op[c].left \in Seq(Trees) /\ op[c].left # <<>>
      /\ Distinct(op[c].left) /\ Members(op[c].left) \subseteq Members(snapshot)
  BY <1>1, <1>2, CallFields DEF InsertOp, ListsOK, IInv
<1> DEFINE t == Head(op[c].left)
           call == [op[c] EXCEPT !.left = Tail(@), !.step = "root"]
<1>4. /\ t \in Trees /\ Tail(op[c].left) \in Seq(Trees) /\ t \in Members(op[c].left)
      /\ \A u : u \in Members(op[c].left) <=> u = t \/ u \in Members(Tail(op[c].left))
      /\ t \notin Members(Tail(op[c].left))
  BY <1>3, MembersOfTail
<1>6. /\ call.call = "insert" /\ call.serial = op[c].serial
      /\ call.left = Tail(op[c].left) /\ call.step = "root"
  BY <1>1, <1>3 DEF InsertOp, Inserting
<1>7. Now(c, call)
  BY DEF InsertLog
<1>8. op[c].key \in Keys /\ op[c].value \in Values
  BY <1>3 DEF InsertOp
<1> HIDE DEF call
<1>9. op'[c] = call /\ \A d \in Callers : d # c => op'[d] = op[d]
  BY <1>7, NowDoes DEF IInv
<1> QED BY <1>1, <1>3, <1>4, <1>6, <1>8, <1>9

LEMMA InsertReturnDoes ==
  ASSUME IInv, NEW c \in Callers, InsertReturn(c)
  PROVE  /\ Inserting(c) /\ op[c].left = <<>> /\ op'[c] = Idle
         /\ op[c].step # "log"
         /\ \A d \in Callers : d # c => op'[d] = op[d]
         /\ op[c].key \in Keys /\ op[c].value \in Values
         /\ latest' = [latest EXCEPT ![op[c].key] = op[c].value]
         /\ UNCHANGED <<snapshot, root, logIndex, logged, inserts>>
<1>1. /\ Inserting(c) /\ op[c].left = <<>> /\ Now(c, Idle)
      /\ latest' = [latest EXCEPT ![op[c].key] = op[c].value]
      /\ UNCHANGED <<snapshot, root, logIndex, logged, inserts>>
  BY DEF InsertReturn, Inserting
<1>2. op[c] # Idle /\ op[c] \in InsertOp
  BY <1>1, CallFields DEF IInv
<1>3. op[c].step # "log"
  BY <1>1, <1>2 DEF IInv, ListsOK
<1>4. op'[c] = Idle /\ \A d \in Callers : d # c => op'[d] = op[d]
  BY <1>1, NowDoes DEF IInv
<1> QED BY <1>1, <1>2, <1>3, <1>4 DEF InsertOp

LEMMA AddAppendDoes ==
  ASSUME Assumed, IInv, UNCHANGED together, NEW c \in Callers, NEW t \in Trees,
         AddAppend(c, t)
  PROVE  /\ op[c] = Idle /\ op'[c].call = "add" /\ op'[c].step = "choose"
         /\ op'[c].left = snapshot' /\ op'[c].refRoot = root[t]
         /\ op'[c].refIndex = 0
         /\ \A d \in Callers : d # c => op'[d] = op[d]
         /\ \A d \in Callers : ~Inserting(d) /\ ~Inserting(d)'
         /\ Serial => \A d \in Callers : op[d] = Idle
         /\ t \notin Members(snapshot)
         /\ \A x : x \in Members(snapshot') <=> x = t \/ x \in Members(snapshot)
         /\ UNCHANGED <<root, logIndex, logged, inserts, latest>>
<1> DEFINE call == [call |-> "add", trees |-> snapshot', left |-> snapshot',
                    step |-> "choose", reference |-> t, refRoot |-> root[t],
                    refIndex |-> 0]
<1>1. /\ t \notin Members(snapshot) /\ snapshot' = Append(snapshot, t)
      /\ UNCHANGED <<root, logIndex, logged, inserts, latest>>
      /\ Now(c, call)
  BY DEF AddAppend
<1>2. \A x : x \in Members(snapshot') <=> x = t \/ x \in Members(snapshot)
  BY <1>1, MembersOfAppend DEF TypesOK, ListsOK, IInv
<1>4. /\ call.call = "add" /\ call.left = snapshot' /\ call.step = "choose"
      /\ call.refRoot = root[t] /\ call.refIndex = 0
  OBVIOUS
<1> HIDE DEF call
<1>5. op'[c] = call /\ \A d \in Callers : d # c => op'[d] = op[d]
  BY <1>1, NowDoes DEF IInv
<1>6. /\ op[c] = Idle
      /\ \A d \in Callers : op[d] # Idle => {"add", op[d].call} \in together
  BY DEF AddAppend, MayStart
<1>7. \A d \in Callers : ~Inserting(d)
  <2>1. \A d \in Callers : Inserting(d) => {"insert", "add"} \in together
    BY <1>6, CallFields DEF Inserting, IInv
  <2> QED BY <2>1 DEF Assumed, UsedInOrder, TypesOK, IInv
<1>8. \A d \in Callers : ~Inserting(d)'
  BY <1>4, <1>5, <1>7 DEF Inserting
<1>9. Serial => \A d \in Callers : op[d] = Idle
  BY <1>6 DEF Serial
<1> QED BY <1>1, <1>2, <1>4, <1>5, <1>6, <1>7, <1>8, <1>9

\* What the steps of synchronizeTrees have in common.
Syncing(c) ==
  /\ Adding(c) /\ op[c] \in AddOp
  /\ op'[c] = Idle \/ op'[c].call = "add"
  /\ \A d \in Callers : d # c => op'[d] = op[d]
  /\ \A d \in Callers : ~Inserting(d) /\ ~Inserting(d)'
  /\ Serial => \A d \in Callers : d # c => op[d] = Idle
  /\ UNCHANGED <<snapshot, logged, inserts, latest>>

LEMMA SyncDoes ==
  ASSUME IInv, NEW c \in Callers, Adding(c), NEW call, Now(c, call),
         call = Idle \/ call.call = "add",
         UNCHANGED <<snapshot, logged, inserts, latest>>
  PROVE  Syncing(c) /\ op'[c] = call
<1>1. op'[c] = call /\ \A d \in Callers : d # c => op'[d] = op[d]
  BY NowDoes DEF IInv
<1>2. \A d \in Callers : ~Inserting(d)
  BY AddsApart DEF IInv
<1>3. op[c] # Idle /\ op[c] \in AddOp
  BY CallFields DEF IInv
<1>4. Serial => \A d \in Callers : d # c => op[d] = Idle
  BY <1>3 DEF IInv, OverlapOK
<1>5. \A d \in Callers : ~Inserting(d)'
  BY <1>1, <1>2 DEF Inserting, Idle
<1> QED BY <1>1, <1>2, <1>3, <1>4, <1>5 DEF Syncing

LEMMA ChooseDoes ==
  ASSUME IInv, NEW c \in Callers, NEW t \in Trees, ChooseReference(c, t)
  PROVE  /\ Syncing(c) /\ UNCHANGED <<root, logIndex>> /\ op[c].step = "choose"
         /\ op'[c].call = "add" /\ op'[c].step = "load" /\ op'[c].left = op[c].left
         /\ op'[c].refRoot = op[c].refRoot /\ op'[c].refIndex = op[c].refIndex
<1>1. PICK r : Now(c, [op[c] EXCEPT !.reference = r, !.step = "load"])
  BY DEF ChooseReference
<1>2. /\ Adding(c) /\ op[c].step = "choose"
      /\ UNCHANGED <<snapshot, root, logIndex, logged, inserts, latest>>
  BY DEF ChooseReference, Adding
<1> DEFINE call == [op[c] EXCEPT !.reference = r, !.step = "load"]
<1>3. op[c] \in AddOp
  BY <1>2, CallFields DEF IInv
<1>4. /\ call.call = "add" /\ call.step = "load" /\ call.left = op[c].left
      /\ call.refRoot = op[c].refRoot /\ call.refIndex = op[c].refIndex
  BY <1>2, <1>3 DEF AddOp, Adding
<1> HIDE DEF call
<1>5. Syncing(c) /\ op'[c] = call
  BY <1>1, <1>2, <1>4, SyncDoes DEF call
<1> QED BY <1>2, <1>4, <1>5

LEMMA LoadReferenceDoes ==
  ASSUME IInv, NEW c \in Callers, LoadReference(c)
  PROVE  /\ Syncing(c) /\ UNCHANGED <<root, logIndex>> /\ op[c].step = "load"
         /\ op'[c].call = "add" /\ op'[c].step = "state" /\ op'[c].left = op[c].left
         /\ op[c].reference \in Members(snapshot)
         /\ op'[c].refRoot = root[op[c].reference] /\ op'[c].refIndex = op[c].refIndex
<1> DEFINE call == [op[c] EXCEPT !.refRoot = root[op[c].reference], !.step = "state"]
<1>1. /\ Adding(c) /\ op[c].step = "load" /\ Now(c, call)
      /\ UNCHANGED <<snapshot, root, logIndex, logged, inserts, latest>>
  BY DEF LoadReference, Adding
<1>2. op[c] \in AddOp
  BY <1>1, CallFields DEF IInv
<1>3. op[c].reference \in Members(snapshot)
  BY <1>1 DEF IInv, ReferenceOK
<1>4. /\ call.call = "add" /\ call.step = "state" /\ call.left = op[c].left
      /\ call.refRoot = root[op[c].reference] /\ call.refIndex = op[c].refIndex
  BY <1>1, <1>2 DEF AddOp, Adding
<1> HIDE DEF call
<1>5. Syncing(c) /\ op'[c] = call
  BY <1>1, <1>4, SyncDoes
<1> QED BY <1>1, <1>3, <1>4, <1>5

LEMMA LoadLogStateDoes ==
  ASSUME IInv, NEW c \in Callers, LoadLogState(c)
  PROVE  /\ Syncing(c) /\ UNCHANGED <<root, logIndex>> /\ op[c].step = "state"
         /\ op'[c].call = "add" /\ op'[c].step = "copy" /\ op'[c].left = op[c].left
         /\ op[c].reference \in Members(snapshot)
         /\ root[op[c].reference].data = latest
         /\ op'[c].refRoot = op[c].refRoot
         /\ op'[c].refIndex = logIndex[op[c].reference]
<1> DEFINE call == [op[c] EXCEPT !.refIndex = logIndex[op[c].reference], !.step = "copy"]
<1>1. /\ Adding(c) /\ op[c].step = "state" /\ Now(c, call)
      /\ UNCHANGED <<snapshot, root, logIndex, logged, inserts, latest>>
  BY DEF LoadLogState, Adding
<1>2. op[c] \in AddOp
  BY <1>1, CallFields DEF IInv
<1>3. op[c].reference \in Members(snapshot) /\ root[op[c].reference].data = latest
  BY <1>1 DEF IInv, ReferenceOK
<1>4. /\ call.call = "add" /\ call.step = "copy" /\ call.left = op[c].left
      /\ call.refRoot = op[c].refRoot /\ call.refIndex = logIndex[op[c].reference]
  BY <1>1, <1>2 DEF AddOp, Adding
<1> HIDE DEF call
<1>5. Syncing(c) /\ op'[c] = call
  BY <1>1, <1>4, SyncDoes
<1> QED BY <1>1, <1>3, <1>4, <1>5

\* The next tree of the list, and the ones after it.
LEMMA NextTree ==
  ASSUME IInv, NEW c \in Callers, Adding(c), op[c].left # <<>>
  PROVE  /\ Head(op[c].left) \in Members(snapshot) /\ Head(op[c].left) \in Trees
         /\ \A u : u \in Members(op[c].left)
                     <=> u = Head(op[c].left) \/ u \in Members(Tail(op[c].left))
<1>1. op[c] # Idle /\ op[c].left \in Seq(Trees)
  BY CallFields DEF IInv
<1>2. Members(op[c].left) \subseteq Members(snapshot)
  BY <1>1 DEF IInv, ListsOK
<1> QED BY <1>1, <1>2, MembersOfTail

LEMMA SkipDoes ==
  ASSUME IInv, NEW c \in Callers, Skip(c)
  PROVE  /\ Syncing(c) /\ UNCHANGED <<root, logIndex>> /\ op[c].step = "copy"
         /\ op[c].left # <<>> /\ root[Head(op[c].left)].data = latest
         /\ op'[c].call = "add" /\ op'[c].step = "copy"
         /\ op'[c].left = Tail(op[c].left)
         /\ op'[c].refRoot = op[c].refRoot /\ op'[c].refIndex = op[c].refIndex
<1> DEFINE call == [op[c] EXCEPT !.left = Tail(@)]
           t == Head(op[c].left)
<1>1. /\ Adding(c) /\ op[c].step = "copy" /\ Now(c, call) /\ op[c].left # <<>>
      /\ t = op[c].reference \/ root[t].pointer = op[c].refRoot.pointer
      /\ UNCHANGED <<snapshot, root, logIndex, logged, inserts, latest>>
  BY DEF Skip, Adding
<1>2. op[c] \in AddOp /\ t \in Trees
  BY <1>1, CallFields, NextTree DEF IInv
<1> HIDE DEF t
<1>3. root[t].data = latest
  BY <1>1, <1>2 DEF IInv, ReferenceOK, PointersOK
<1>4. /\ call.call = "add" /\ call.step = "copy" /\ call.left = Tail(op[c].left)
      /\ call.refRoot = op[c].refRoot /\ call.refIndex = op[c].refIndex
  BY <1>1, <1>2 DEF AddOp, Adding
<1> HIDE DEF call
<1>5. Syncing(c) /\ op'[c] = call
  BY <1>1, <1>4, SyncDoes
<1> QED BY <1>1, <1>3, <1>4, <1>5 DEF t

LEMMA CopyRootDoes ==
  ASSUME IInv, NEW c \in Callers, CopyRoot(c)
  PROVE  /\ Syncing(c) /\ UNCHANGED logIndex /\ op[c].step = "copy"
         /\ op[c].left # <<>>
         /\ \A u \in Trees : u # Head(op[c].left) => root'[u] = root[u]
         /\ op'[c].call = "add" /\ op'[c].step = "store" /\ op'[c].left = op[c].left
         /\ op'[c].refRoot = op[c].refRoot /\ op'[c].refIndex = op[c].refIndex
<1> DEFINE call == [op[c] EXCEPT !.step = "store"]
           t == Head(op[c].left)
<1>1. /\ Adding(c) /\ op[c].step = "copy" /\ Now(c, call) /\ op[c].left # <<>>
      /\ root' = [root EXCEPT ![t] = op[c].refRoot]
      /\ UNCHANGED <<snapshot, logIndex, logged, inserts, latest>>
  BY DEF CopyRoot, Adding
<1>2. op[c] \in AddOp
  BY <1>1, CallFields DEF IInv
<1>3. \A u \in Trees : u # t => root'[u] = root[u]
  BY <1>1 DEF IInv, TypesOK
<1>4. /\ call.call = "add" /\ call.step = "store" /\ call.left = op[c].left
      /\ call.refRoot = op[c].refRoot /\ call.refIndex = op[c].refIndex
  BY <1>1, <1>2 DEF AddOp, Adding
<1> HIDE DEF call
<1>5. Syncing(c) /\ op'[c] = call
  BY <1>1, <1>4, SyncDoes
<1> QED BY <1>1, <1>3, <1>4, <1>5

LEMMA CopyIndexDoes ==
  ASSUME IInv, NEW c \in Callers, CopyIndex(c)
  PROVE  /\ Syncing(c) /\ UNCHANGED root /\ op[c].step = "store"
         /\ op[c].left # <<>>
         /\ logIndex'[Head(op[c].left)] = op[c].refIndex
         /\ \A u \in Trees : u # Head(op[c].left) => logIndex'[u] = logIndex[u]
         /\ op'[c].call = "add" /\ op'[c].step = "copy"
         /\ op'[c].left = Tail(op[c].left)
         /\ op'[c].refRoot = op[c].refRoot /\ op'[c].refIndex = op[c].refIndex
<1> DEFINE call == [op[c] EXCEPT !.left = Tail(@), !.step = "copy"]
           t == Head(op[c].left)
<1>1. /\ Adding(c) /\ op[c].step = "store" /\ Now(c, call)
      /\ logIndex' = [logIndex EXCEPT ![t] = op[c].refIndex]
      /\ UNCHANGED <<snapshot, root, logged, inserts, latest>>
  BY DEF CopyIndex, Adding
<1>2. op[c] # Idle /\ op[c] \in AddOp
  BY <1>1, CallFields DEF IInv
<1>3. op[c].left # <<>>
  BY <1>1, <1>2 DEF IInv, ListsOK
<1>4. t \in Trees
  BY <1>1, <1>3, NextTree
<1>5. logIndex'[t] = op[c].refIndex /\ \A u \in Trees : u # t => logIndex'[u] = logIndex[u]
  BY <1>1, <1>4 DEF IInv, TypesOK
<1>6. /\ call.call = "add" /\ call.step = "copy" /\ call.left = Tail(op[c].left)
      /\ call.refRoot = op[c].refRoot /\ call.refIndex = op[c].refIndex
  BY <1>1, <1>2 DEF AddOp, Adding
<1> HIDE DEF call
<1>7. Syncing(c) /\ op'[c] = call
  BY <1>1, <1>6, SyncDoes
<1> QED BY <1>1, <1>3, <1>5, <1>6, <1>7

LEMMA AddReturnDoes ==
  ASSUME IInv, NEW c \in Callers, AddReturn(c)
  PROVE  /\ Syncing(c) /\ UNCHANGED <<root, logIndex>>
         /\ op[c].step = "copy" /\ op[c].left = <<>> /\ op'[c] = Idle
<1>1. /\ Adding(c) /\ op[c].step = "copy" /\ op[c].left = <<>> /\ Now(c, Idle)
      /\ UNCHANGED <<snapshot, root, logIndex, logged, inserts, latest>>
  BY DEF AddReturn, Adding
<1>2. Syncing(c) /\ op'[c] = Idle
  BY <1>1, SyncDoes
<1> QED BY <1>1, <1>2

LEMMA AllSync ==
  ASSUME IInv, NEW c \in Callers, synchronizeTrees(c) PROVE Syncing(c)
  BY ChooseDoes, LoadReferenceDoes, LoadLogStateDoes, SkipDoes, CopyRootDoes,
     CopyIndexDoes, AddReturnDoes DEF synchronizeTrees

-----------------------------------------------------------------------------
(* The log of the first tree *)

\* The Insert has published its root in t, and its record is not in the log.
Logging(c, t) == Inserting(c) /\ op[c].step = "log" /\ Head(op[c].left) = t

\* The log of the first tree, if no record of it was lost, replays to what the
\* tree holds, but for the keys that a running Insert is about to log.
LogOK ==
  /\ logged \in [Trees -> Map \cup {None}]
  /\ First \in Persistent /\ logged[First] # None => \A k \in Keys :
       (\A c \in Callers : Logging(c, First) => op[c].key # k) =>
         logged[First][k] = root[First].data[k]

\* A step of AddTree: the root of the first tree held what the Inserts wrote,
\* and does.
LEMMA AddLogKeeps ==
  ASSUME Assumed, IInv, IInv', LogOK, UNCHANGED <<logged, latest>>,
         \A d \in Callers : ~Inserting(d) /\ ~Inserting(d)'
  PROVE  LogOK'
<1>1. First \in Trees
  BY DEF Assumed, ForestAssumption
<1>2. root[First].data = latest
  BY <1>1, UpToDateIs DEF IInv, RootsOK
<1>3. root'[First].data = latest'
  <2>1. root'[First].data \in Map /\ latest' \in Map
    BY <1>1 DEF IInv, TypesOK
  <2>2. \A k \in Keys : root'[First].data[k] = latest'[k]
    BY DEF IInv, RootsOK, UpToDate
  <2> QED BY <2>1, <2>2 DEF Map
<1> QED BY <1>2, <1>3 DEF LogOK, Logging

LEMMA InsertCallLogs ==
  ASSUME Assumed, IInv, LogOK, NEW c \in Callers, UNCHANGED together, InsertCall(c)
  PROVE  LogOK'
<1>1. /\ UNCHANGED <<root, logged>> /\ op'[c].step = "root" /\ op[c] = Idle
      /\ \A d \in Callers : d # c => op'[d] = op[d]
  BY InsertCallDoes
<1>2. \A d \in Callers : Logging(d, First)' <=> Logging(d, First)
  BY <1>1 DEF Logging, Inserting, Idle
<1>3. \A d \in Callers : Logging(d, First) => op'[d] = op[d]
  BY <1>1 DEF Logging, Inserting, Idle
<1> QED BY <1>1, <1>2, <1>3 DEF LogOK

LEMMA InsertRootLogs ==
  ASSUME Assumed, IInv, LogOK, NEW c \in Callers, InsertRoot(c)
  PROVE  LogOK'
<1> DEFINE t == Head(op[c].left)
<1>1. /\ Inserting(c) /\ op[c].step = "root" /\ op'[c].call = "insert"
      /\ op'[c].step = "log" /\ op'[c].key = op[c].key /\ op'[c].left = op[c].left
      /\ \A d \in Callers : d # c => op'[d] = op[d]
      /\ \A u \in Trees : u # t => root'[u] = root[u]
      /\ \A l \in Keys, u \in Trees :
           l # op[c].key => root'[u].data[l] = root[u].data[l]
      /\ UNCHANGED logged
  BY InsertRootDoes
<1>2. First \in Trees
  BY DEF Assumed, ForestAssumption
<1>3. /\ ~Logging(c, First) /\ (t = First => Logging(c, First)')
      /\ \A d \in Callers : d # c => (Logging(d, First)' <=> Logging(d, First))
  BY <1>1 DEF Logging, Inserting
<1> HIDE DEF t
<1>4. ASSUME First \in Persistent, logged[First] # None, NEW k \in Keys,
             \A d \in Callers : Logging(d, First)' => op'[d].key # k
      PROVE  logged[First][k] = root'[First].data[k]
  <2>1. \A d \in Callers : Logging(d, First) => op[d].key # k
    BY <1>4, <1>1, <1>3
  <2>2. logged[First][k] = root[First].data[k]
    BY <2>1, <1>4 DEF LogOK
  <2>3. t = First => k # op[c].key
    BY <1>4, <1>1, <1>3
  <2> QED BY <2>2, <2>3, <1>1, <1>2
<1> QED BY <1>1, <1>4 DEF LogOK

\* A record that is not lost changes what the log holds of its key.
LEMMA LogWritten ==
  ASSUME NEW t \in Trees, NEW c \in Callers, op[c].key \in Keys,
         op[c].value \in Values, logged \in [Trees -> Map \cup {None}],
         t \in Persistent, NEW log \in Relogged(c, t), log # None
  PROVE  /\ logged[t] # None /\ log \in Map /\ log[op[c].key] = op[c].value
         /\ \A l \in Keys : l # op[c].key => log[l] = logged[t][l]
<1>1. logged[t] # None /\ log = [logged[t] EXCEPT ![op[c].key] = op[c].value]
  BY DEF Relogged
<1>2. logged[t] \in [Keys -> Values \cup {None}]
  BY <1>1 DEF Map
<1> QED BY <1>1, <1>2 DEF Map

LEMMA InsertLogLogs ==
  ASSUME Assumed, IInv, LogOK, NEW c \in Callers, InsertLog(c)
  PROVE  LogOK'
<1> DEFINE t == Head(op[c].left)
           k == op[c].key
           v == op[c].value
<1>1. /\ Inserting(c) /\ op[c].step = "log" /\ op'[c].step = "root"
      /\ \A d \in Callers : d # c => op'[d] = op[d]
      /\ k \in Keys /\ v \in Values /\ t \in Members(snapshot) /\ t \in Trees
      /\ UNCHANGED root
  BY InsertLogDoes
<1>2. PICK log \in Relogged(c, t) : logged' = [logged EXCEPT ![t] = log]
  BY DEF InsertLog
<1>3. /\ ~Logging(c, First)' /\ (Logging(c, First) => t = First)
      /\ \A d \in Callers : d # c => (Logging(d, First)' <=> Logging(d, First))
  BY <1>1 DEF Logging, Inserting
<1>4. root[t].data[k] = v
  BY <1>1 DEF IInv, RootsOK, Done
<1>5. First \in Trees /\ logged \in [Trees -> Map \cup {None}]
  BY DEF Assumed, ForestAssumption, LogOK
<1> HIDE DEF t
<1>6. log \in Map \cup {None}
  <2>1. CASE t \in Persistent
    BY <2>1, <1>1, <1>5, LogWritten
  <2>2. CASE t \notin Persistent
    BY <2>2, <1>1, <1>2, <1>5 DEF Relogged
  <2> QED BY <2>1, <2>2
<1>7. /\ logged' \in [Trees -> Map \cup {None}] /\ logged'[t] = log
      /\ \A u \in Trees : u # t => logged'[u] = logged[u]
  BY <1>1, <1>2, <1>5, <1>6
<1>8. ASSUME First \in Persistent, logged'[First] # None, NEW l \in Keys,
             \A d \in Callers : Logging(d, First)' => op'[d].key # l
      PROVE  logged'[First][l] = root[First].data[l]
  <2>1. t = First => /\ logged[t] # None /\ logged'[t][k] = v
                     /\ l # k => logged'[t][l] = logged[t][l]
    BY <1>1, <1>2, <1>5, <1>7, <1>8, LogWritten
  <2>2. CASE t = First /\ l = k
    BY <2>1, <2>2, <1>4
  <2>3. CASE t # First \/ l # k
    <3>1. \A d \in Callers : Logging(d, First) => op[d].key # l
      BY <2>3, <1>1, <1>3, <1>8
    <3>2. logged[First] # None
      BY <2>1, <1>5, <1>7, <1>8
    <3>3. logged[First][l] = root[First].data[l]
      BY <3>1, <3>2, <1>8 DEF LogOK
    <3> QED BY <3>3, <2>1, <2>3, <1>5, <1>7
  <2> QED BY <2>2, <2>3
<1> QED BY <1>1, <1>7, <1>8 DEF LogOK

LEMMA InsertReturnLogs ==
  ASSUME IInv, LogOK, NEW c \in Callers, InsertReturn(c)
  PROVE  LogOK'
<1>1. /\ UNCHANGED <<root, logged>> /\ op'[c] = Idle /\ op[c].step # "log"
      /\ \A d \in Callers : d # c => op'[d] = op[d]
  BY InsertReturnDoes
<1>2. \A d \in Callers : /\ Logging(d, First)' <=> Logging(d, First)
                         /\ Logging(d, First) => op'[d] = op[d]
  BY <1>1 DEF Logging, Inserting, Idle
<1> QED BY <1>1, <1>2 DEF LogOK

LEMMA LogKeeps ==
  ASSUME Assumed, IInv, LogOK, [Next]_vars PROVE LogOK'
<1>0. IInv'
  BY StepKeeps
<1>1. CASE UNCHANGED vars
  BY <1>1 DEF vars, LogOK, Logging, Inserting
<1>2. ASSUME NEW c \in Callers, UNCHANGED together, Insert(c) PROVE LogOK'
  BY <1>2, InsertCallLogs, InsertRootLogs, InsertLogLogs, InsertReturnLogs
     DEF Insert
<1>3. ASSUME NEW c \in Callers, NEW t \in Trees, UNCHANGED together, AddAppend(c, t)
      PROVE LogOK'
  BY <1>0, <1>3, AddAppendDoes, AddLogKeeps
<1>4. ASSUME NEW c \in Callers, synchronizeTrees(c) PROVE LogOK'
  BY <1>0, <1>4, AllSync, AddLogKeeps DEF Syncing
<1> QED BY <1>1, <1>2, <1>3, <1>4 DEF Next, AddTree

-----------------------------------------------------------------------------
(* The log indexes *)

Behind(t)   == logIndex[t] # logIndex[First]
InsertsRest == \A c \in Callers : ~Inserting(c)
Owed(c, t)  == IF t \in Members(op[c].left) THEN 1 ELSE 0

\* When calls do not overlap, a tree has the index of the others when the Insert
\* that runs has logged in all of them, or the AddTree that runs is done with
\* it; an AddTree passes over no tree that is behind.
IndexesOK ==
  /\ \A t \in Trees \ Members(snapshot) : logIndex[t] = 0
  /\ Serial =>
     /\ InsertsRest /\ latest = Empty => logIndex[First] = 0
     /\ \A c \in Callers : Inserting(c) => \A t, u \in Members(snapshot) :
          logIndex[t] + Owed(c, t) = logIndex[u] + Owed(c, u)
     /\ InsertsRest => \A t \in Members(snapshot) : Behind(t) =>
          \E c \in Callers : /\ Adding(c) /\ t \in Members(op[c].left)
                             /\ \/ root[t].data # latest
                                \/ op[c].step = "store" /\ t = Head(op[c].left)
     /\ \A c \in Callers : Adding(c) /\ op[c].step \in {"copy", "store"} =>
          op[c].refIndex = logIndex[First]

LEMMA InsertCallIndexes ==
  ASSUME Assumed, IInv, IndexesOK, NEW c \in Callers, UNCHANGED together, InsertCall(c)
  PROVE  IndexesOK'
<1>1. /\ UNCHANGED <<snapshot, root, logIndex, latest>>
      /\ op[c] = Idle /\ op'[c].call = "insert" /\ op'[c].left = snapshot
      /\ \A d \in Callers : d # c => op'[d] = op[d]
      /\ \A d \in Callers : ~Adding(d)
  BY InsertCallDoes
<1>2. Inserting(c)' /\ ~InsertsRest' /\ (Serial' <=> Serial)
  BY <1>1 DEF Inserting, InsertsRest, Serial
<1>3. ASSUME Serial
      PROVE  /\ \A d \in Callers : Inserting(d)' => d = c
             /\ \A d \in Callers : ~Adding(d)' /\ ~Inserting(d)
  <2>1. \A d \in Callers : op[d] # Idle => {"insert", op[d].call} \in together
    BY DEF InsertCall, MayStart
  <2>2. \A d \in Callers : op[d] = Idle
    BY <2>1, <1>3 DEF Serial
  <2> QED BY <2>2, <1>1 DEF Inserting, Adding, Idle
<1>4. ASSUME Serial, NEW t \in Members(snapshot) PROVE ~Behind(t)
  BY <1>1, <1>3, <1>4 DEF IndexesOK, InsertsRest
<1>5. \A t \in Members(snapshot) : Owed(c, t)' = 1
  BY <1>1 DEF Owed
<1>6. Serial => \A t, u \in Members(snapshot) :
        logIndex'[t] + Owed(c, t)' = logIndex'[u] + Owed(c, u)'
  BY <1>1, <1>4, <1>5 DEF Behind
<1> QED BY <1>1, <1>2, <1>3, <1>6 DEF IndexesOK

LEMMA InsertRootIndexes ==
  ASSUME IInv, IndexesOK, NEW c \in Callers, UNCHANGED together, InsertRoot(c)
  PROVE  IndexesOK'
<1>1. /\ UNCHANGED <<snapshot, logIndex, latest>>
      /\ Inserting(c) /\ op'[c].call = "insert" /\ op'[c].left = op[c].left
      /\ \A d \in Callers : d # c => op'[d] = op[d]
  BY InsertRootDoes
<1>2. /\ Inserting(c)' /\ ~InsertsRest' /\ (Serial' <=> Serial)
      /\ \A d \in Callers : Inserting(d)' <=> Inserting(d)
      /\ \A d \in Callers : Adding(d)' <=> Adding(d) /\ d # c
  BY <1>1 DEF Inserting, Adding, InsertsRest, Serial
<1>3. \A t : \A d \in Callers : Owed(d, t)' = Owed(d, t)
  BY <1>1 DEF Owed
<1> QED BY <1>1, <1>2, <1>3 DEF IndexesOK

LEMMA InsertLogIndexes ==
  ASSUME Assumed, IInv, IndexesOK, NEW c \in Callers, UNCHANGED together, InsertLog(c)
  PROVE  IndexesOK'
<1> DEFINE t == Head(op[c].left)
<1>1. /\ UNCHANGED <<snapshot, latest>>
      /\ Inserting(c) /\ op'[c].call = "insert"
      /\ \A d \in Callers : d # c => op'[d] = op[d]
      /\ t \in Members(op[c].left) /\ t \in Members(snapshot) /\ t \in Trees
      /\ \A u : u \in Members(op[c].left) <=> u = t \/ u \in Members(op'[c].left)
      /\ t \notin Members(op'[c].left)
  BY InsertLogDoes
<1>2. logIndex' = [logIndex EXCEPT ![t] = @ + 1]
  BY DEF InsertLog
<1>3. logIndex \in [Trees -> Nat] /\ Members(snapshot) \subseteq Trees
  BY DEF IInv, TypesOK, Members
<1> HIDE DEF t
<1>4. /\ logIndex'[t] = logIndex[t] + 1
      /\ \A u \in Trees : u # t => logIndex'[u] = logIndex[u]
  BY <1>1, <1>2, <1>3
<1>5. /\ Inserting(c)' /\ ~InsertsRest' /\ (Serial' <=> Serial)
      /\ \A d \in Callers : Inserting(d)' <=> Inserting(d)
      /\ \A d \in Callers : ~Adding(d)'
  BY <1>1, InsertsApart DEF IInv, Inserting, Adding, InsertsRest, Serial
<1>6. \A d \in Callers : Serial /\ Inserting(d) => d = c
  BY <1>1, CallFields DEF IInv, OverlapOK
<1>7. \A u \in Members(snapshot) :
        logIndex'[u] + Owed(c, u)' = logIndex[u] + Owed(c, u)
  <2> TAKE u \in Members(snapshot)
  <2>1. CASE u = t
    <3>1. Owed(c, u)' = 0 /\ Owed(c, u) = 1
      BY <2>1, <1>1 DEF Owed
    <3> QED BY <3>1, <2>1, <1>1, <1>3, <1>4
  <2>2. CASE u # t
    <3>1. Owed(c, u)' = Owed(c, u)
      BY <2>2, <1>1 DEF Owed
    <3> QED BY <3>1, <2>2, <1>3, <1>4
  <2> QED BY <2>1, <2>2
<1>8. \A u \in Trees \ Members(snapshot) : logIndex'[u] = 0
  BY <1>1, <1>4 DEF IndexesOK
<1>9. Serial => \A u, w \in Members(snapshot) :
        logIndex'[u] + Owed(c, u)' = logIndex'[w] + Owed(c, w)'
  BY <1>1, <1>7 DEF IndexesOK
<1> QED BY <1>1, <1>5, <1>6, <1>8, <1>9 DEF IndexesOK

LEMMA InsertReturnIndexes ==
  ASSUME Assumed, IInv, IndexesOK, NEW c \in Callers, UNCHANGED together,
         InsertReturn(c)
  PROVE  IndexesOK'
<1>1. /\ Inserting(c) /\ op[c].left = <<>> /\ op'[c] = Idle
      /\ \A d \in Callers : d # c => op'[d] = op[d]
      /\ op[c].key \in Keys /\ op[c].value \in Values
      /\ latest' = [latest EXCEPT ![op[c].key] = op[c].value]
      /\ UNCHANGED <<snapshot, root, logIndex>>
  BY InsertReturnDoes
<1>2. Serial => \A d \in Callers : ~Inserting(d)' /\ ~Adding(d)'
  BY <1>1, CallFields, InsertsApart DEF IInv, OverlapOK, Inserting, Adding, Idle
<1>3. latest' # Empty
  <2>1. latest' [op[c].key] = op[c].value
    BY <1>1 DEF IInv, TypesOK, Map
  <2>2. Empty[op[c].key] = None /\ op[c].value # None
    BY <1>1 DEF Empty, Assumed, ForestAssumption
  <2> QED BY <2>1, <2>2
<1>4. \A t : Owed(c, t) = 0
  BY <1>1, NoMembers DEF Owed
<1>5. First \in Members(snapshot) /\ logIndex \in [Trees -> Nat]
      /\ Members(snapshot) \subseteq Trees
  BY DEF IInv, ListsOK, TypesOK, Members
<1>6. ASSUME Serial, NEW t \in Members(snapshot) PROVE ~Behind(t)'
  <2>1. logIndex[t] + Owed(c, t) = logIndex[First] + Owed(c, First)
    BY <1>1, <1>5, <1>6 DEF IndexesOK
  <2>2. logIndex[t] \in Nat /\ logIndex[First] \in Nat
    BY <1>5
  <2>3. logIndex[t] = logIndex[First]
    BY <2>1, <2>2, <1>4
  <2> QED BY <2>3, <1>1 DEF Behind
<1>7. Serial' <=> Serial
  BY DEF Serial
<1> QED BY <1>1, <1>2, <1>3, <1>6, <1>7 DEF IndexesOK

LEMMA AddAppendIndexes ==
  ASSUME Assumed, IInv, IndexesOK, UNCHANGED together, NEW c \in Callers,
         NEW t \in Trees, AddAppend(c, t)
  PROVE  IndexesOK'
<1>1. /\ op[c] = Idle /\ op'[c].call = "add" /\ op'[c].step = "choose"
      /\ op'[c].left = snapshot'
      /\ \A d \in Callers : d # c => op'[d] = op[d]
      /\ \A d \in Callers : ~Inserting(d) /\ ~Inserting(d)'
      /\ Serial => \A d \in Callers : op[d] = Idle
      /\ t \notin Members(snapshot)
      /\ \A x : x \in Members(snapshot') <=> x = t \/ x \in Members(snapshot)
      /\ UNCHANGED <<root, logIndex, latest>>
  BY AddAppendDoes
<1>2. InsertsRest /\ InsertsRest' /\ (Serial' <=> Serial) /\ Adding(c)'
  BY <1>1 DEF InsertsRest, Serial, Adding
<1>3. \A u \in Trees \ Members(snapshot') : logIndex'[u] = 0
  BY <1>1 DEF IndexesOK
<1>4. Serial /\ latest' = Empty => logIndex'[First] = 0
  BY <1>1, <1>2 DEF IndexesOK
<1>5. ASSUME Serial, NEW u \in Members(snapshot'), Behind(u)'
      PROVE  Adding(c)' /\ u \in Members(op'[c].left) /\ root'[u].data # latest'
  <2>1. \A d \in Callers : ~Adding(d)
    BY <1>1, <1>5 DEF Adding, Idle
  <2>2. \A w \in Members(snapshot) : ~Behind(w)
    BY <2>1, <1>2, <1>5 DEF IndexesOK
  <2>3. u = t
    BY <2>2, <1>1, <1>5 DEF Behind
  <2>4. logIndex[t] = 0 /\ root[t].data = Empty
    BY <1>1 DEF IndexesOK, IInv, RootsOK
  <2>5. latest # Empty
    BY <2>3, <2>4, <1>1, <1>2, <1>5 DEF IndexesOK, Behind
  <2> QED BY <2>3, <2>4, <2>5, <1>1, <1>2
<1>6. ASSUME Serial, NEW d \in Callers, Adding(d)' PROVE op'[d].step = "choose"
  BY <1>1, <1>6 DEF Adding, Idle
<1> QED BY <1>1, <1>2, <1>3, <1>4, <1>5, <1>6 DEF IndexesOK

\* When calls do not overlap, the AddTree that runs is the only call.
LEMMA AddAlone ==
  ASSUME IndexesOK, Serial, NEW c \in Callers, Syncing(c)
  PROVE  /\ latest = Empty => logIndex[First] = 0
         /\ op[c].step \in {"copy", "store"} => op[c].refIndex = logIndex[First]
         /\ \A t \in Members(snapshot) : Behind(t) =>
              /\ t \in Members(op[c].left)
              /\ \/ root[t].data # latest
                 \/ op[c].step = "store" /\ t = Head(op[c].left)
<1>1. \A d \in Callers : Adding(d) => d = c
  BY DEF Syncing, Adding, Idle
<1>2. InsertsRest /\ Adding(c)
  BY DEF Syncing, InsertsRest
<1> QED BY <1>1, <1>2 DEF IndexesOK

LEMMA SyncIndexes ==
  ASSUME IndexesOK, UNCHANGED together, NEW c \in Callers, Syncing(c),
         \A t \in Trees \ Members(snapshot) : logIndex'[t] = 0,
         Serial => logIndex'[First] = logIndex[First],
         Serial => \A t \in Members(snapshot) : Behind(t)' =>
           /\ Adding(c)' /\ t \in Members(op'[c].left)
           /\ \/ root'[t].data # latest
              \/ op'[c].step = "store" /\ t = Head(op'[c].left),
         Serial /\ Adding(c)' /\ op'[c].step \in {"copy", "store"} =>
           op'[c].refIndex = logIndex[First]
  PROVE  IndexesOK'
<1>1. /\ InsertsRest /\ InsertsRest' /\ (Serial' <=> Serial)
      /\ UNCHANGED <<snapshot, latest>>
  BY DEF Syncing, InsertsRest, Serial
<1>2. Serial => \A d \in Callers : Adding(d)' => d = c
  BY DEF Syncing, Adding, Idle
<1>3. Serial /\ latest' = Empty => logIndex'[First] = 0
  BY <1>1, AddAlone
<1>4. \A d \in Callers : ~Inserting(d)'
  BY <1>1 DEF InsertsRest
<1> QED BY <1>1, <1>2, <1>3, <1>4 DEF IndexesOK

LEMMA AddIndexes ==
  ASSUME Assumed, IInv, IInv', IndexesOK, UNCHANGED together, NEW c \in Callers,
         synchronizeTrees(c)
  PROVE  IndexesOK'
<1>1. Syncing(c)
  BY AllSync
<1>2. Serial =>
        /\ op[c].step \in {"copy", "store"} => op[c].refIndex = logIndex[First]
        /\ \A t \in Members(snapshot) : Behind(t) =>
              /\ t \in Members(op[c].left)
              /\ \/ root[t].data # latest
                 \/ op[c].step = "store" /\ t = Head(op[c].left)
  BY <1>1, AddAlone
<1>3. \A t \in Trees \ Members(snapshot) : logIndex[t] = 0
  BY DEF IndexesOK
<1>4. UNCHANGED logIndex => \A t : Behind(t)' <=> Behind(t)
  BY DEF Behind
<1>5. ASSUME NEW t \in Trees, ChooseReference(c, t) PROVE IndexesOK'
  <2>1. /\ UNCHANGED <<root, logIndex>> /\ op[c].step = "choose"
        /\ op'[c].call = "add" /\ op'[c].step = "load" /\ op'[c].left = op[c].left
    BY <1>5, ChooseDoes
  <2>2. Adding(c)'
    BY <2>1 DEF Adding
  <2> QED BY <2>1, <2>2, <1>1, <1>2, <1>3, <1>4, SyncIndexes
<1>6. ASSUME LoadReference(c) PROVE IndexesOK'
  <2>1. /\ UNCHANGED <<root, logIndex>> /\ op[c].step = "load"
        /\ op'[c].call = "add" /\ op'[c].step = "state" /\ op'[c].left = op[c].left
    BY <1>6, LoadReferenceDoes
  <2>2. Adding(c)'
    BY <2>1 DEF Adding
  <2> QED BY <2>1, <2>2, <1>1, <1>2, <1>3, <1>4, SyncIndexes
<1>7. ASSUME LoadLogState(c) PROVE IndexesOK'
  <2>1. /\ UNCHANGED <<root, logIndex>> /\ op[c].step = "state"
        /\ op'[c].call = "add" /\ op'[c].step = "copy" /\ op'[c].left = op[c].left
        /\ op[c].reference \in Members(snapshot)
        /\ root[op[c].reference].data = latest
        /\ op'[c].refIndex = logIndex[op[c].reference]
    BY <1>7, LoadLogStateDoes
  <2>2. Adding(c)'
    BY <2>1 DEF Adding
  <2>3. Serial => op'[c].refIndex = logIndex[First]
    BY <2>1, <1>2 DEF Behind
  <2> QED BY <2>1, <2>2, <2>3, <1>1, <1>2, <1>3, <1>4, SyncIndexes
<1>8. ASSUME Skip(c) PROVE IndexesOK'
  <2>1. /\ UNCHANGED <<root, logIndex>> /\ op[c].step = "copy"
        /\ op[c].left # <<>> /\ root[Head(op[c].left)].data = latest
        /\ op'[c].call = "add" /\ op'[c].step = "copy"
        /\ op'[c].left = Tail(op[c].left) /\ op'[c].refIndex = op[c].refIndex
    BY <1>8, SkipDoes
  <2>2. Adding(c)' /\ Adding(c)
    BY <2>1, <1>1 DEF Adding, Syncing
  <2>3. \A u : u \in Members(op[c].left)
                <=> u = Head(op[c].left) \/ u \in Members(Tail(op[c].left))
    BY <2>1, <2>2, NextTree
  <2>4. ASSUME Serial, NEW t \in Members(snapshot), Behind(t)'
        PROVE  t \in Members(op'[c].left) /\ root'[t].data # latest
    <3>1. t \in Members(op[c].left) /\ root[t].data # latest
      BY <2>1, <2>4, <1>2, <1>4
    <3> QED BY <3>1, <2>1, <2>3
  <2> QED BY <2>1, <2>2, <2>4, <1>1, <1>2, <1>3, SyncIndexes
<1>9. ASSUME CopyRoot(c) PROVE IndexesOK'
  <2>1. /\ UNCHANGED logIndex /\ op[c].step = "copy" /\ op[c].left # <<>>
        /\ \A u \in Trees : u # Head(op[c].left) => root'[u] = root[u]
        /\ op'[c].call = "add" /\ op'[c].step = "store" /\ op'[c].left = op[c].left
        /\ op'[c].refIndex = op[c].refIndex
    BY <1>9, CopyRootDoes
  <2>2. Adding(c)' /\ Members(snapshot) \subseteq Trees
    BY <2>1 DEF Adding, IInv, TypesOK, Members
  <2>3. ASSUME Serial, NEW t \in Members(snapshot), Behind(t)'
        PROVE  /\ t \in Members(op'[c].left)
               /\ root'[t].data # latest \/ t = Head(op'[c].left)
    <3>1. t \in Members(op[c].left) /\ root[t].data # latest
      BY <2>1, <2>3, <1>2, <1>4
    <3> QED BY <3>1, <2>1, <2>2
  <2> QED BY <2>1, <2>2, <2>3, <1>1, <1>2, <1>3, SyncIndexes
<1>10. ASSUME CopyIndex(c) PROVE IndexesOK'
  <2> DEFINE h == Head(op[c].left)
  <2>1. /\ UNCHANGED root /\ op[c].step = "store" /\ op[c].left # <<>>
        /\ logIndex'[h] = op[c].refIndex
        /\ \A u \in Trees : u # h => logIndex'[u] = logIndex[u]
        /\ op'[c].call = "add" /\ op'[c].step = "copy"
        /\ op'[c].left = Tail(op[c].left) /\ op'[c].refIndex = op[c].refIndex
    BY <1>10, CopyIndexDoes
  <2>2. Adding(c)' /\ Adding(c) /\ Members(snapshot) \subseteq Trees
        /\ First \in Trees
    BY <2>1, <1>1 DEF Adding, Syncing, IInv, TypesOK, Members, Assumed,
                      ForestAssumption
  <2>3. /\ h \in Members(snapshot)
        /\ \A u : u \in Members(op[c].left)
                    <=> u = h \/ u \in Members(Tail(op[c].left))
    BY <2>1, <2>2, NextTree
  <2> HIDE DEF h
  <2>4. Serial => logIndex'[First] = logIndex[First]
    BY <2>1, <2>2, <1>2
  <2>5. ASSUME Serial, NEW t \in Members(snapshot), Behind(t)'
        PROVE  t \in Members(op'[c].left) /\ root'[t].data # latest
    <3>1. t # h
      BY <2>1, <2>4, <2>5, <1>2 DEF Behind
    <3>2. Behind(t)
      BY <3>1, <2>1, <2>2, <2>4, <2>5 DEF Behind
    <3>3. t \in Members(op[c].left) /\ root[t].data # latest
      BY <3>1, <3>2, <2>5, <1>2 DEF h
    <3> QED BY <3>1, <3>3, <2>1, <2>3
  <2>6. \A t \in Trees \ Members(snapshot) : logIndex'[t] = 0
    BY <2>1, <2>3, <1>3
  <2> QED BY <2>1, <2>2, <2>4, <2>5, <2>6, <1>1, <1>2, SyncIndexes
<1>11. ASSUME AddReturn(c) PROVE IndexesOK'
  <2>1. /\ UNCHANGED <<root, logIndex>>
        /\ op[c].step = "copy" /\ op[c].left = <<>> /\ op'[c] = Idle
    BY <1>11, AddReturnDoes
  <2>2. ~Adding(c)'
    BY <2>1 DEF Adding, Idle
  <2>3. Serial => \A t \in Members(snapshot) : ~Behind(t)'
    BY <2>1, <1>2, <1>4, NoMembers
  <2> QED BY <2>1, <2>2, <2>3, <1>1, <1>3, SyncIndexes
<1> QED BY <1>5, <1>6, <1>7, <1>8, <1>9, <1>10, <1>11 DEF synchronizeTrees

LEMMA IndexesKeep ==
  ASSUME Assumed, IInv, IndexesOK, [Next]_vars PROVE IndexesOK'
<1>0. IInv'
  BY StepKeeps
<1>1. CASE UNCHANGED vars
  BY <1>1 DEF vars, IndexesOK, Behind, InsertsRest, Owed, Inserting, Adding, Serial
<1>2. ASSUME NEW c \in Callers, UNCHANGED together, Insert(c) PROVE IndexesOK'
  BY <1>2, InsertCallIndexes, InsertRootIndexes, InsertLogIndexes,
     InsertReturnIndexes DEF Insert
<1>3. ASSUME NEW c \in Callers, NEW t \in Trees, UNCHANGED together, AddAppend(c, t)
      PROVE IndexesOK'
  BY <1>3, AddAppendIndexes
<1>4. ASSUME NEW c \in Callers, UNCHANGED together, synchronizeTrees(c)
      PROVE IndexesOK'
  BY <1>0, <1>4, AddIndexes
<1> QED BY <1>1, <1>2, <1>3, <1>4 DEF Next, AddTree

-----------------------------------------------------------------------------
(* How far the counters get *)

\* The Inserts that have still to log in t.
Unlogged(t) ==
  {op[c].serial : c \in {d \in Callers : Inserting(d) /\ t \in Members(op[d].left)}}

\* Every Insert takes one serial, and adds one to the index of a tree at most.
BoundsOK ==
  /\ inserts <= MaxInserts
  /\ \A c \in Callers : Inserting(c) => op[c].serial >= 1
  /\ \A c \in Callers : Adding(c) =>
       op[c].refIndex <= inserts /\ op[c].refRoot.pointer[2] <= inserts
  /\ \A t \in Trees : logIndex[t] + Cardinality(Unlogged(t)) <= inserts

LEMMA UnloggedFinite ==
  ASSUME IInv, NEW t
  PROVE  IsFiniteSet(Unlogged(t)) /\ Cardinality(Unlogged(t)) \in Nat
<1>1. \A c \in Callers : Inserting(c) => op[c].serial \in Nat /\ op[c].serial <= inserts
  BY CallFields DEF InsertOp, IInv, PointersOK
<1>2. inserts \in Nat
  BY DEF IInv, TypesOK
<1>3. Unlogged(t) \in SUBSET (0..inserts)
  BY <1>1, <1>2 DEF Unlogged
<1>4. IsFiniteSet(0..inserts)
  BY <1>2, FS_Interval
<1>5. IsFiniteSet(Unlogged(t))
  BY <1>3, <1>4, FS_Subset
<1> QED BY <1>5, FS_CardinalityType

LEMMA InsertCallBounds ==
  ASSUME Assumed, IInv, BoundsOK, NEW c \in Callers, UNCHANGED together, InsertCall(c)
  PROVE  BoundsOK'
<1>1. /\ inserts' = inserts + 1 /\ inserts < MaxInserts
      /\ UNCHANGED logIndex
      /\ op[c] = Idle /\ op'[c].call = "insert" /\ op'[c].serial = inserts + 1
      /\ \A d \in Callers : d # c => op'[d] = op[d]
      /\ \A d \in Callers : ~Adding(d)
  BY InsertCallDoes
<1>2. inserts \in Nat /\ MaxInserts \in Nat /\ logIndex \in [Trees -> Nat]
  BY DEF IInv, TypesOK, Assumed, ForestAssumption
<1>3. ~Inserting(c) /\ \A d \in Callers : ~Adding(d)'
  BY <1>1 DEF Inserting, Adding, Idle
<1>4. \A d \in Callers : d # c => (Inserting(d)' <=> Inserting(d))
  BY <1>1 DEF Inserting
<1>5. ASSUME NEW t \in Trees
      PROVE  logIndex'[t] + Cardinality(Unlogged(t)') <= inserts'
  <2>1. Unlogged(t)' \in SUBSET (Unlogged(t) \cup {inserts + 1})
    BY <1>1, <1>4 DEF Unlogged
  <2> DEFINE U == Unlogged(t)
             V == Unlogged(t)'
  <2>2. IsFiniteSet(U) /\ Cardinality(U) \in Nat
    BY UnloggedFinite
  <2>3. V \in SUBSET (U \cup {inserts + 1})
    BY <2>1
  <2>4. logIndex[t] + Cardinality(U) <= inserts /\ logIndex[t] \in Nat
    BY <1>2 DEF BoundsOK
  <2> HIDE DEF U, V
  <2> DEFINE W == U \cup {inserts + 1}
  <2>5. /\ IsFiniteSet(W)
        /\ Cardinality(W) = Cardinality(U) \/ Cardinality(W) = Cardinality(U) + 1
    BY <2>2, FS_AddElement
  <2> HIDE DEF W
  <2>6. /\ Cardinality(V) <= Cardinality(W)
        /\ Cardinality(V) \in Nat /\ Cardinality(W) \in Nat
    BY <2>3, <2>5, FS_Subset, FS_CardinalityType DEF W
  <2>7. logIndex'[t] + Cardinality(V) <= inserts'
    BY <2>2, <2>4, <2>5, <2>6, <1>1, <1>2
  <2> QED BY <2>7 DEF V
<1>6. inserts' <= MaxInserts
  BY <1>1, <1>2
<1>7. \A d \in Callers : Inserting(d)' => op'[d].serial >= 1
  BY <1>1, <1>2, <1>4 DEF BoundsOK
<1> QED BY <1>3, <1>5, <1>6, <1>7 DEF BoundsOK

LEMMA InsertRootBounds ==
  ASSUME IInv, BoundsOK, NEW c \in Callers, InsertRoot(c) PROVE BoundsOK'
<1>1. /\ Inserting(c) /\ op'[c].call = "insert"
      /\ op'[c].serial = op[c].serial /\ op'[c].left = op[c].left
      /\ \A d \in Callers : d # c => op'[d] = op[d]
      /\ UNCHANGED <<logIndex, inserts>>
  BY InsertRootDoes
<1>2. \A d \in Callers : /\ Inserting(d)' <=> Inserting(d)
                         /\ Adding(d)' <=> Adding(d) /\ d # c
                         /\ op'[d].left = op[d].left
                         /\ Inserting(d) => op'[d].serial = op[d].serial
  BY <1>1 DEF Inserting, Adding
<1>3. \A t : Unlogged(t)' = Unlogged(t)
  BY <1>2 DEF Unlogged
<1> QED BY <1>1, <1>2, <1>3 DEF BoundsOK

LEMMA InsertLogBounds ==
  ASSUME Assumed, IInv, BoundsOK, NEW c \in Callers, InsertLog(c) PROVE BoundsOK'
<1>0. PICK h \in Trees : h = Head(op[c].left)
  BY InsertLogDoes
<1>1. /\ Inserting(c) /\ op'[c].call = "insert" /\ op'[c].serial = op[c].serial
      /\ \A d \in Callers : d # c => op'[d] = op[d]
      /\ h \in Members(op[c].left) /\ h \in Trees
      /\ \A u : u \in Members(op[c].left) <=> u = h \/ u \in Members(op'[c].left)
      /\ h \notin Members(op'[c].left)
      /\ UNCHANGED inserts
  BY <1>0, InsertLogDoes
<1>2. logIndex' = [logIndex EXCEPT ![h] = @ + 1]
  BY <1>0 DEF InsertLog
<1>3. logIndex \in [Trees -> Nat] /\ inserts \in Nat
  BY DEF IInv, TypesOK
<1>4. /\ logIndex'[h] = logIndex[h] + 1
      /\ \A u \in Trees : u # h => logIndex'[u] = logIndex[u]
  BY <1>1, <1>2, <1>3
<1>5. \A d \in Callers : /\ Inserting(d)' <=> Inserting(d)
                         /\ Inserting(d) => op'[d].serial = op[d].serial
  BY <1>1 DEF Inserting
<1>6. \A d \in Callers : ~Adding(d)'
  BY <1>1, InsertsApart DEF IInv, Adding
<1>7. ASSUME NEW t \in Trees, t # h PROVE Unlogged(t)' = Unlogged(t)
  <2>1. \A d \in Callers : t \in Members(op'[d].left) <=> t \in Members(op[d].left)
    BY <1>1, <1>7
  <2> QED BY <2>1, <1>5 DEF Unlogged
<1>8. op[c].serial \in Unlogged(h)
  BY <1>1 DEF Unlogged
<1>9. Unlogged(h)' \in SUBSET (Unlogged(h) \ {op[c].serial})
  <2>1. ASSUME NEW d \in Callers, Inserting(d)', h \in Members(op'[d].left)
        PROVE  op'[d].serial \in Unlogged(h) \ {op[c].serial}
    <3>1. d # c
      BY <2>1, <1>1
    <3>2. Inserting(d) /\ op'[d] = op[d]
      BY <3>1, <2>1, <1>1, <1>5
    <3>3. op[d].serial # op[c].serial
      BY <3>1, <3>2, <1>1 DEF IInv, PointersOK
    <3> QED BY <3>2, <3>3, <2>1 DEF Unlogged
  <2> QED BY <2>1 DEF Unlogged
<1>10. logIndex'[h] + Cardinality(Unlogged(h)') <= inserts
  <2> DEFINE U == Unlogged(h)
             V == Unlogged(h)'
             s == op[c].serial
  <2>1. IsFiniteSet(U) /\ Cardinality(U) \in Nat
    BY UnloggedFinite
  <2>2. V \in SUBSET (U \ {s}) /\ s \in U
    BY <1>8, <1>9
  <2>3. logIndex[h] + Cardinality(U) <= inserts /\ logIndex[h] \in Nat
    BY <1>1, <1>3 DEF BoundsOK
  <2> HIDE DEF U, V, s
  <2>4. IsFiniteSet(U \ {s}) /\ Cardinality(U \ {s}) = Cardinality(U) - 1
        /\ Cardinality(U \ {s}) \in Nat
    BY <2>1, <2>2, FS_RemoveElement, FS_CardinalityType
  <2>5. Cardinality(V) <= Cardinality(U \ {s}) /\ Cardinality(V) \in Nat
    BY <2>2, <2>4, FS_Subset, FS_CardinalityType
  <2>6. logIndex'[h] + Cardinality(V) <= inserts
    BY <2>1, <2>3, <2>4, <2>5, <1>3, <1>4
  <2> QED BY <2>6 DEF V
<1>11. ASSUME NEW t \in Trees
       PROVE  logIndex'[t] + Cardinality(Unlogged(t)') <= inserts'
  <2>1. CASE t = h
    BY <2>1, <1>1, <1>10
  <2>2. CASE t # h
    BY <2>2, <1>1, <1>4, <1>7 DEF BoundsOK
  <2> QED BY <2>1, <2>2
<1> QED BY <1>1, <1>5, <1>6, <1>11 DEF BoundsOK

LEMMA InsertReturnBounds ==
  ASSUME IInv, BoundsOK, NEW c \in Callers, InsertReturn(c) PROVE BoundsOK'
<1>1. /\ Inserting(c) /\ op[c].left = <<>> /\ op'[c] = Idle
      /\ \A d \in Callers : d # c => op'[d] = op[d]
      /\ UNCHANGED <<logIndex, inserts>>
  BY InsertReturnDoes
<1>2. /\ ~Inserting(c)' /\ ~Adding(c)'
      /\ \A d \in Callers : d # c => /\ Inserting(d)' <=> Inserting(d)
                                     /\ Adding(d)' <=> Adding(d)
  BY <1>1 DEF Inserting, Adding, Idle
<1>3. \A t : t \notin Members(op[c].left)
  BY <1>1, NoMembers
<1>4. \A t : Unlogged(t)' = Unlogged(t)
  BY <1>1, <1>2, <1>3 DEF Unlogged
<1> QED BY <1>1, <1>2, <1>4 DEF BoundsOK

\* Between Inserts, an index is bounded by their number.
LEMMA NoneUnlogged ==
  ASSUME \A d \in Callers : ~Inserting(d), NEW t
  PROVE  Unlogged(t) = {} /\ Cardinality(Unlogged(t)) = 0
<1>1. Unlogged(t) = {}
  BY DEF Unlogged
<1> QED BY <1>1, FS_EmptySet

\* A step of AddTree: it takes a root and an index of a tree, and writes them
\* to another.
LEMMA AddBounds ==
  ASSUME IInv, IInv', BoundsOK, NEW c \in Callers, UNCHANGED inserts,
         \A d \in Callers : d # c => op'[d] = op[d],
         \A d \in Callers : ~Inserting(d) /\ ~Inserting(d)',
         Adding(c)' => op'[c].refIndex <= inserts /\ op'[c].refRoot.pointer[2] <= inserts,
         \A t \in Trees : logIndex'[t] <= inserts
  PROVE  BoundsOK'
<1>1. \A t \in Trees : logIndex'[t] \in Nat /\ Cardinality(Unlogged(t)') = 0
  <2>1. \A t : Cardinality(Unlogged(t)') = 0
    <3>1. \A t : Unlogged(t)' = {}
      BY DEF Unlogged
    <3> QED BY <3>1, FS_EmptySet
  <2> QED BY <2>1 DEF IInv, TypesOK
<1>2. \A t \in Trees : logIndex'[t] + Cardinality(Unlogged(t)') <= inserts'
  BY <1>1
<1>3. \A d \in Callers : d # c => (Adding(d)' <=> Adding(d))
  BY DEF Adding
<1> QED BY <1>2, <1>3 DEF BoundsOK

LEMMA SyncBounds ==
  ASSUME Assumed, IInv, IInv', BoundsOK, NEW c \in Callers, synchronizeTrees(c)
  PROVE  BoundsOK'
<1>1. Syncing(c)
  BY AllSync
<1>2. /\ op[c].refIndex <= inserts /\ op[c].refRoot.pointer[2] <= inserts
      /\ Members(snapshot) \subseteq Trees
  BY <1>1 DEF Syncing, BoundsOK, IInv, TypesOK, Members
<1>3. \A t \in Trees : logIndex[t] <= inserts /\ root[t].pointer[2] <= inserts
  <2>1. \A t \in Trees : logIndex[t] \in Nat /\ Cardinality(Unlogged(t)) = 0
    BY <1>1, NoneUnlogged DEF Syncing, IInv, TypesOK
  <2>2. \A t \in Trees : logIndex[t] + Cardinality(Unlogged(t)) <= inserts
    BY DEF BoundsOK
  <2>3. \A t \in Trees : logIndex[t] <= inserts
    BY <2>1, <2>2
  <2> QED BY <2>3 DEF IInv, PointersOK
<1>4. SUFFICES /\ Adding(c)' => /\ op'[c].refIndex <= inserts
                                /\ op'[c].refRoot.pointer[2] <= inserts
               /\ \A t \in Trees : logIndex'[t] <= inserts
  BY <1>1, AddBounds DEF Syncing
<1>5. ASSUME NEW t \in Trees, ChooseReference(c, t)
      PROVE  /\ op'[c].refIndex <= inserts /\ op'[c].refRoot.pointer[2] <= inserts
             /\ UNCHANGED logIndex
  BY <1>2, <1>5, ChooseDoes
<1>6. ASSUME LoadReference(c)
      PROVE  /\ op'[c].refIndex <= inserts /\ op'[c].refRoot.pointer[2] <= inserts
             /\ UNCHANGED logIndex
  BY <1>2, <1>3, <1>6, LoadReferenceDoes
<1>7. ASSUME LoadLogState(c)
      PROVE  /\ op'[c].refIndex <= inserts /\ op'[c].refRoot.pointer[2] <= inserts
             /\ UNCHANGED logIndex
  BY <1>2, <1>3, <1>7, LoadLogStateDoes
<1>8. ASSUME Skip(c)
      PROVE  /\ op'[c].refIndex <= inserts /\ op'[c].refRoot.pointer[2] <= inserts
             /\ UNCHANGED logIndex
  BY <1>2, <1>8, SkipDoes
<1>9. ASSUME CopyRoot(c)
      PROVE  /\ op'[c].refIndex <= inserts /\ op'[c].refRoot.pointer[2] <= inserts
             /\ UNCHANGED logIndex
  BY <1>2, <1>9, CopyRootDoes
<1>10. ASSUME CopyIndex(c)
       PROVE  /\ op'[c].refIndex <= inserts /\ op'[c].refRoot.pointer[2] <= inserts
              /\ \A t \in Trees : logIndex'[t] <= inserts
  <2> DEFINE h == Head(op[c].left)
  <2>1. /\ logIndex'[h] = op[c].refIndex
        /\ \A u \in Trees : u # h => logIndex'[u] = logIndex[u]
        /\ op'[c].refRoot = op[c].refRoot /\ op'[c].refIndex = op[c].refIndex
    BY <1>10, CopyIndexDoes
  <2> HIDE DEF h
  <2> QED BY <2>1, <1>2, <1>3
<1>11. ASSUME AddReturn(c) PROVE ~Adding(c)' /\ UNCHANGED logIndex
  BY <1>11, AddReturnDoes DEF Adding, Idle
<1> QED BY <1>3, <1>5, <1>6, <1>7, <1>8, <1>9, <1>10, <1>11 DEF synchronizeTrees

LEMMA BoundsKeep ==
  ASSUME Assumed, IInv, BoundsOK, [Next]_vars PROVE BoundsOK'
<1>0. IInv'
  BY StepKeeps
<1>1. CASE UNCHANGED vars
  <2>1. UNCHANGED <<op, inserts, logIndex>>
    BY <1>1 DEF vars
  <2>2. \A t : Unlogged(t)' = Unlogged(t)
    BY <2>1 DEF Unlogged, Inserting
  <2> QED BY <2>1, <2>2 DEF BoundsOK, Inserting, Adding
<1>2. ASSUME NEW c \in Callers, UNCHANGED together, Insert(c) PROVE BoundsOK'
  BY <1>2, InsertCallBounds, InsertRootBounds, InsertLogBounds, InsertReturnBounds
     DEF Insert
<1>3. ASSUME NEW c \in Callers, NEW t \in Trees, UNCHANGED together, AddAppend(c, t)
      PROVE BoundsOK'
  <2>1. /\ op'[c].refRoot = root[t] /\ op'[c].refIndex = 0
        /\ \A d \in Callers : d # c => op'[d] = op[d]
        /\ \A d \in Callers : ~Inserting(d) /\ ~Inserting(d)'
        /\ UNCHANGED <<logIndex, inserts>>
    BY <1>3, AddAppendDoes
  <2>2. inserts \in Nat /\ root[t].pointer[2] <= inserts
    BY DEF IInv, TypesOK, PointersOK
  <2>3. \A u \in Trees : logIndex[u] <= inserts
    <3>1. \A u \in Trees : logIndex[u] \in Nat /\ Cardinality(Unlogged(u)) = 0
      BY <2>1, NoneUnlogged DEF IInv, TypesOK
    <3>2. \A u \in Trees : logIndex[u] + Cardinality(Unlogged(u)) <= inserts
      BY DEF BoundsOK
    <3> QED BY <3>1, <3>2
  <2> QED BY <2>1, <2>2, <2>3, <1>0, AddBounds
<1>4. ASSUME NEW c \in Callers, synchronizeTrees(c) PROVE BoundsOK'
  BY <1>0, <1>4, SyncBounds
<1> QED BY <1>1, <1>2, <1>3, <1>4 DEF Next, AddTree

-----------------------------------------------------------------------------
(* What the logs, the indexes and the counters add to the invariant *)

Whole == IInv /\ LogOK /\ IndexesOK /\ BoundsOK

LEMMA WholeAtFirst == ASSUME Assumed, Init PROVE Whole
<1>1. IInv
  BY Establishes
<1>2. /\ snapshot = <<First>> /\ inserts = 0 /\ First \in Trees /\ MaxInserts \in Nat
      /\ root = [t \in Trees |-> [data |-> Empty, pointer |-> <<t, 0>>]]
      /\ logIndex = [t \in Trees |-> 0] /\ logged = [t \in Trees |-> Empty]
      /\ op = [c \in Callers |-> Idle] /\ latest = Empty
  BY DEF Init, Assumed, ForestAssumption, UsedInOrder, Empty
<1>3. \A c \in Callers : ~Inserting(c) /\ ~Adding(c)
  BY <1>2 DEF Idle, Inserting, Adding
<1>4. Empty \in Map
  BY DEF Empty, Map
<1> HIDE DEF Empty
<1>5. LogOK
  BY <1>2, <1>4 DEF LogOK
<1>6. Members(snapshot) = {First}
  BY <1>2 DEF Members
<1>7. IndexesOK
  BY <1>2, <1>3, <1>6 DEF IndexesOK, Behind
<1>8. \A t : Cardinality(Unlogged(t)) = 0
  BY <1>3, NoneUnlogged
<1>9. BoundsOK
  BY <1>2, <1>3, <1>8 DEF BoundsOK
<1> QED BY <1>1, <1>5, <1>7, <1>9 DEF Whole

LEMMA WholeKeeps == ASSUME Assumed, Whole, [Next]_vars PROVE Whole'
  BY StepKeeps, LogKeeps, IndexesKeep, BoundsKeep DEF Whole

\* The ranges of the counters, with the bounds of the model.
LEMMA InRange == ASSUME Assumed, Whole PROVE TypeOK
<1>1. inserts \in 0..MaxInserts /\ MaxInserts \in Nat
  BY DEF Whole, IInv, TypesOK, BoundsOK, Assumed, ForestAssumption
<1>2. logIndex \in [Trees -> 0..MaxInserts]
  <2>1. \A t \in Trees : logIndex[t] \in 0..MaxInserts
    <3> TAKE t \in Trees
    <3>1. /\ logIndex[t] \in Nat /\ Cardinality(Unlogged(t)) \in Nat
          /\ logIndex[t] + Cardinality(Unlogged(t)) <= inserts
      BY UnloggedFinite DEF Whole, IInv, TypesOK, BoundsOK
    <3> QED BY <3>1, <1>1
  <2>2. logIndex \in [Trees -> Nat]
    BY DEF Whole, IInv, TypesOK
  <2> QED BY <2>1, <2>2
<1>3. ASSUME NEW r \in [data : Map, pointer : Trees \X Nat], r.pointer[2] <= inserts
      PROVE  r \in Root
  <2>1. r.pointer \in Trees \X Nat /\ r.pointer[2] \in 0..MaxInserts
    BY <1>1, <1>3
  <2>2. r.pointer \in Pointer
    BY <2>1 DEF Pointer
  <2> QED BY <2>2, <1>3 DEF Root
<1>4. root \in [Trees -> Root]
  <2>1. root \in [Trees -> [data : Map, pointer : Trees \X Nat]]
    BY DEF Whole, IInv, TypesOK
  <2>2. \A t \in Trees : root[t].pointer[2] <= inserts
    BY DEF Whole, IInv, PointersOK
  <2>3. \A t \in Trees : root[t] \in Root
    BY <2>1, <2>2, <1>3
  <2> QED BY <2>1, <2>3
<1>5. op \in [Callers -> {Idle} \cup Inserts \cup Adds]
  <2>1. ASSUME NEW c \in Callers PROVE op[c] \in {Idle} \cup Inserts \cup Adds
    <3>1. CASE Inserting(c)
      <4>1. op[c] \in InsertOp
        BY <3>1, CallFields DEF Whole, IInv
      <4>2. op[c].serial >= 1 /\ op[c].serial <= inserts
        BY <3>1 DEF Whole, BoundsOK, IInv, PointersOK
      <4>3. op[c].serial \in 1..MaxInserts
        BY <4>1, <4>2, <1>1 DEF InsertOp
      <4> QED BY <4>1, <4>3 DEF InsertOp, Inserts
    <3>2. CASE Adding(c)
      <4>1. op[c] \in AddOp
        BY <3>2, CallFields DEF Whole, IInv
      <4>2. op[c].refIndex <= inserts /\ op[c].refRoot.pointer[2] <= inserts
        BY <3>2 DEF Whole, BoundsOK
      <4>3. op[c].refRoot \in Root /\ op[c].refIndex \in 0..MaxInserts
        BY <4>1, <4>2, <1>1, <1>3 DEF AddOp
      <4> QED BY <4>1, <4>3 DEF AddOp, Adds
    <3> QED BY <3>1, <3>2, CallFields DEF Whole, IInv
  <2> QED BY <2>1 DEF Whole, IInv, TypesOK
<1> QED BY <1>1, <1>2, <1>4, <1>5 DEF TypeOK, Whole, IInv, TypesOK, ListsOK, LogOK

LEMMA QuietIndexes == ASSUME Assumed, Whole PROVE IndexAgreement
<1>1. SUFFICES ASSUME Serial, Quiet, NEW t \in Members(snapshot) PROVE ~Behind(t)
  BY <1>1 DEF IndexAgreement, Behind
<1>2. \A c \in Callers : ~Inserting(c) /\ ~Adding(c)
  BY <1>1 DEF Quiet, Inserting, Adding, Idle
<1> QED BY <1>1, <1>2 DEF Whole, IndexesOK, InsertsRest

LEMMA QuietLog ==
  ASSUME Assumed, OnlyFirstPersistent, Whole PROVE LogHoldsTree
<1>1. SUFFICES ASSUME Quiet, First \in Persistent, logged[First] # None
               PROVE  logged[First] = root[First].data
  BY DEF LogHoldsTree, OnlyFirstPersistent
<1>2. \A c \in Callers : ~Logging(c, First)
  BY <1>1 DEF Quiet, Logging, Inserting, Idle
<1>3. \A k \in Keys : logged[First][k] = root[First].data[k]
  BY <1>1, <1>2 DEF Whole, LogOK
<1>4. First \in Trees
  BY DEF Assumed, ForestAssumption
<1>5. logged[First] \in Map /\ root[First].data \in Map
  BY <1>1, <1>4 DEF Whole, LogOK, IInv, TypesOK
<1> QED BY <1>3, <1>5 DEF Map

\* Between calls the trees hold the same data and, when calls do not overlap,
\* the same log index: every Insert has added one to the index of each tree, or
\* AddTree has copied the index along with the root.  No counter passes the
\* number of Inserts (tree.Insert, AddTree, synchronizeTrees).
THEOREM TreesAndIndexesAgree ==
  ASSUME Assumed PROVE Spec => []ForestHolds
<1>1. Init => Whole
  BY WholeAtFirst
<1>2. Whole /\ [Next]_vars => Whole'
  BY WholeKeeps
<1>3. Whole => ForestHolds
  BY InRange, QuietIndexes, QuietHolds DEF ForestHolds, Inv, Whole
<1> QED BY <1>1, <1>2, <1>3, PTL DEF Spec

\* Nothing that a returned Insert wrote is taken back in the trees by an AddTree,
\* and the log of the one tree that NewForest gives one replays to the tree
\* between calls, whatever AddTree has copied over it, unless a record of that
\* log was lost: mixed with another Insert's, failed, or dropped by a snapshot
\* (tree.Insert, synchronizeTrees, NewForest).
THEOREM InsertsSurvive ==
  ASSUME Assumed, OnlyFirstPersistent PROVE Spec => []InsertsKept
<1>1. Init => Whole
  BY WholeAtFirst
<1>2. Whole /\ [Next]_vars => Whole'
  BY WholeKeeps
<1>3. Whole => InsertsKept
  BY QuietHolds, QuietLog DEF InsertsKept, Whole
<1> QED BY <1>1, <1>2, <1>3, PTL DEF Spec
=============================================================================
