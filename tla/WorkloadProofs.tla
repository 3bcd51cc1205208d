--------------------------- MODULE WorkloadProofs ---------------------------
(***************************************************************************)
(* Proofs about Workload for any dataset, batch size, vocabulary and       *)
(* arguments: accepted arguments give a record, its energy is that of as   *)
(* many like units as it says, rows that agree did the same work, and what *)
(* is said of the tokens is true of them, in a row and in a comparison.    *)
(***************************************************************************)
EXTENDS CompareRuns, SumProofs, SequenceTheorems

IsSeq(s) == Len(s) \in Nat /\ s = [i \in 1 .. Len(s) |-> s[i]]

(* n samples of s after the first p, and the k-th batch of the plan.       *)
Cut(s, p, n) == SubSeq(s, p + 1, p + n)
BatchNo(k)   == Cut(Order, (k - 1) * BATCH_SIZE, BATCH_SIZE)

(* Units done and still to be done.                                        *)
Taken == Len(warm) + Len(work)
Left  == args.warmup + args.units - Taken

Inside == {"warm", "region"}

(* Where run() is says how many units it has done.                         *)
PlaceInv ==
  /\ at \in {"none", "call"} \cup Inside
  /\ at # "none" => args \in Arguments
  /\ at \in {"none", "call"} => warm = <<>> /\ work = <<>>
  /\ at \in Inside => Accepts(args)
  /\ at = "warm" => work = <<>> /\ Len(warm) <= args.warmup
  /\ at = "region" => Len(warm) = args.warmup /\ Len(work) <= args.units
  /\ IsSeq(warm) /\ IsSeq(work) /\ IsSeq(rows)

(* resnet_train: the batches so far are the plan's, and the loader has the *)
(* rest of it; the model came from a fresh seed.                           *)
PlanInv ==
  at \in Inside /\ args.bench = "resnet_train" =>
    /\ init = Seeded
    /\ loader = Cut(Order, Taken * BATCH_SIZE, Left * BATCH_SIZE)
    /\ \A k \in 1 .. Len(warm) : warm[k] = BatchNo(k)
    /\ \A k \in 1 .. Len(work) : work[k] = BatchNo(args.warmup + k)

(* The others: what may be in the region.                                  *)
UnitInv ==
  at \in Inside =>
    /\ args.bench = "matmul" => \A k \in 1 .. Len(work) : work[k] = Multiply
    /\ args.bench = "llm_inference" => \A k \in 1 .. Len(work) : work[k] \in Generated

(* The last generation is of full length, and what is recorded of it.      *)
OfTokens(r, a) ==
  LET last == r.did.work[a.units] IN
  /\ r.did = [init |-> NoRng, warm |-> <<>>, work |-> r.did.work]
  /\ IsSeq(r.did.work) /\ Len(r.did.work) = a.units
  /\ last \in [1 .. a.batch -> [1 .. a.size -> Tokens]]
  /\ r.identical => \A k \in 1 .. a.units : r.did.work[k] = r.did.work[1]
  /\ r.longest = LongestRepeat(last[1])
  /\ r.work_hash = [k \in 1 .. a.batch * a.size |->
                      last[((k - 1) \div a.size) + 1][((k - 1) % a.size) + 1]]
  /\ r.config_id = <<"b", a.batch, "n", a.size, "i", a.units>>

(* A row is of accepted arguments, and says and holds what they determine. *)
Matches(r, a) ==
  /\ Accepts(a) /\ r.workload = a.bench /\ r.inner_iters = a.units
  /\ a.bench = "resnet_train" =>
       /\ r.work_hash = <<a.units, a.warmup, Planned(a)>>
       /\ r.did = [init |-> Seeded, warm |-> [k \in 1 .. a.warmup |-> BatchNo(k)],
                   work |-> [k \in 1 .. a.units |-> BatchNo(a.warmup + k)]]
  /\ a.bench = "matmul" =>
       /\ r.work_hash = <<a.size, a.units>>
       /\ r.did = [init |-> NoRng, warm |-> <<>>, work |-> [k \in 1 .. a.units |-> <<a.size, a.size>>]]
  /\ a.bench = "llm_inference" => OfTokens(r, a)

RowInv == \A i \in 1 .. Len(rows) : \E a \in Arguments : Matches(rows[i], a)

IInv == PlaceInv /\ PlanInv /\ UnitInv /\ RowInv /\ AcceptedIsRecorded

----------------------------------------------------------------------------
LEMMA SeqIsSeq == ASSUME NEW S, NEW s \in Seq(S) PROVE IsSeq(s)
<1>1. Len(s) \in Nat /\ s \in [1 .. Len(s) -> S]
  BY LenProperties
<1>. QED BY <1>1 DEF IsSeq

LEMMA IsSeqOf ==
  ASSUME NEW s, IsSeq(s)
  PROVE  s \in Seq({s[i] : i \in 1 .. Len(s)})
<1>1. Len(s) \in Nat /\ s \in [1 .. Len(s) -> {s[i] : i \in 1 .. Len(s)}]
  BY DEF IsSeq
<1>. QED BY <1>1, SeqDef

LEMMA Appended ==
  ASSUME NEW s, IsSeq(s), NEW x
  PROVE  /\ IsSeq(Append(s, x)) /\ Len(Append(s, x)) = Len(s) + 1
         /\ \A i \in 1 .. Len(s) : Append(s, x)[i] = s[i]
         /\ Append(s, x)[Len(s) + 1] = x
<1>. DEFINE S == {s[i] : i \in 1 .. Len(s)} \cup {x}
<1>1. s \in Seq(S)
  <2>1. s \in [1 .. Len(s) -> S] /\ Len(s) \in Nat
    BY DEF IsSeq
  <2>. HIDE DEF S
  <2>. QED BY <2>1, SeqDef
<1>2. x \in S
  OBVIOUS
<1>. HIDE DEF S
<1>3. Append(s, x) \in Seq(S)
  BY <1>1, <1>2, AppendProperties
<1>4. IsSeq(Append(s, x))
  BY <1>3, SeqIsSeq
<1>. QED BY <1>1, <1>2, <1>4, AppendProperties

LEMMA EmptyIsSeq == IsSeq(<<>>) /\ Len(<<>>) = 0
BY EmptySeq, SeqIsSeq

(* Two sequences with the same elements are the same.                      *)
LEMMA SameSeq ==
  ASSUME NEW s, NEW t, IsSeq(s), IsSeq(t), Len(s) = Len(t), \A i \in 1 .. Len(s) : s[i] = t[i]
  PROVE  s = t
<1>1. [i \in 1 .. Len(s) |-> s[i]] = [i \in 1 .. Len(t) |-> t[i]]
  OBVIOUS
<1>. QED BY <1>1 DEF IsSeq

LEMMA Slice ==
  ASSUME NEW s, NEW p \in Nat, NEW n \in Nat, \A i \in 1 .. n : s[p + i] \in Nat
  PROVE  /\ Cut(s, p, n) \in Seq(Nat) /\ Len(Cut(s, p, n)) = n
         /\ \A i \in 1 .. n : Cut(s, p, n)[i] = s[p + i]
<1>. DEFINE lo == p + 1
            q  == p + n
<1>1. lo \in Int /\ q \in Int /\ \A i \in lo .. q : s[i] \in Nat
  <2>1. \A i \in lo .. q : i - p \in 1 .. n /\ i = p + (i - p)
    OBVIOUS
  <2>. QED BY <2>1
<1>2. /\ SubSeq(s, lo, q) \in Seq(Nat) /\ Len(SubSeq(s, lo, q)) = (IF lo <= q THEN q - lo + 1 ELSE 0)
      /\ \A i \in 1 .. q - lo + 1 : SubSeq(s, lo, q)[i] = s[lo + i - 1]
  <2>. HIDE DEF lo, q
  <2>. QED BY <1>1, SubSeqProperties
<1>3. q - lo + 1 = n /\ (IF lo <= q THEN q - lo + 1 ELSE 0) = n
  OBVIOUS
<1>4. \A i \in 1 .. n : lo + i - 1 = p + i
  OBVIOUS
<1>. QED BY <1>2, <1>3, <1>4 DEF Cut

(* A slice that leaves nothing out before it.                              *)
LEMMA FirstSlice ==
  ASSUME NEW s, NEW n \in Nat, \A i \in 1 .. n : s[i] \in Nat
  PROVE  /\ Cut(s, 0, n) \in Seq(Nat) /\ Len(Cut(s, 0, n)) = n
         /\ \A i \in 1 .. n : Cut(s, 0, n)[i] = s[i]
<1>. DEFINE IsSlice(c, p) == /\ c \in Seq(Nat) /\ Len(c) = n
                             /\ \A i \in 1 .. n : c[i] = s[p + i]
<1>1. \A p \in Nat : (\A i \in 1 .. n : s[p + i] \in Nat) => IsSlice(Cut(s, p, n), p)
  <2>. SUFFICES ASSUME NEW p \in Nat, \A i \in 1 .. n : s[p + i] \in Nat
                PROVE  IsSlice(Cut(s, p, n), p)
    OBVIOUS
  <2>. QED BY Slice
<1>2. 0 \in Nat /\ \A i \in 1 .. n : 0 + i = i /\ s[0 + i] \in Nat
  OBVIOUS
<1>3. IsSlice(Cut(s, 0, n), 0)
  <2>. HIDE DEF IsSlice
  <2>. QED BY <1>1, <1>2
<1>. QED BY <1>2, <1>3

(* Taking the next b samples of a plan of m, of which p are gone.          *)
LEMMA NextBatch ==
  ASSUME NEW p \in Nat, NEW b \in Nat, NEW q \in Nat, p + b + q <= Len(Order),
         NEW rest, rest = Cut(Order, p, b + q)
  PROVE  /\ Len(rest) = b + q
         /\ Cut(rest, 0, b) = Cut(Order, p, b) /\ Len(Cut(rest, 0, b)) = b
         /\ Cut(rest, b, q) = Cut(Order, p + b, q)
<1>1. \A i \in 1 .. Len(Order) : Order[i] \in Nat
  BY WorkloadAssumption, ElementOfSeq
<1>2. Len(Order) \in Nat
  BY WorkloadAssumption, LenProperties
<1>3. rest \in Seq(Nat) /\ Len(rest) = b + q /\ \A i \in 1 .. b + q : rest[i] = Order[p + i]
  <2>1. b + q \in Nat /\ \A i \in 1 .. b + q : Order[p + i] \in Nat
    BY <1>1, <1>2
  <2>. QED BY <2>1, Slice
<1>4. /\ Cut(rest, 0, b) \in Seq(Nat) /\ Len(Cut(rest, 0, b)) = b
      /\ \A i \in 1 .. b : Cut(rest, 0, b)[i] = rest[i]
  <2>1. \A i \in 1 .. b : rest[i] \in Nat
    BY <1>1, <1>2, <1>3
  <2>. QED BY <2>1, FirstSlice
<1>5. /\ Cut(Order, p, b) \in Seq(Nat) /\ Len(Cut(Order, p, b)) = b
      /\ \A i \in 1 .. b : Cut(Order, p, b)[i] = Order[p + i]
  <2>1. \A i \in 1 .. b : Order[p + i] \in Nat
    BY <1>1, <1>2
  <2>. QED BY <2>1, Slice
<1>6. /\ Cut(rest, b, q) \in Seq(Nat) /\ Len(Cut(rest, b, q)) = q
      /\ \A i \in 1 .. q : Cut(rest, b, q)[i] = rest[b + i]
  <2>1. \A i \in 1 .. q : rest[b + i] \in Nat
    BY <1>1, <1>2, <1>3
  <2>. QED BY <2>1, Slice
<1>7. /\ Cut(Order, p + b, q) \in Seq(Nat) /\ Len(Cut(Order, p + b, q)) = q
      /\ \A i \in 1 .. q : Cut(Order, p + b, q)[i] = Order[p + b + i]
  <2>1. p + b \in Nat /\ \A i \in 1 .. q : Order[p + b + i] \in Nat
    BY <1>1, <1>2
  <2>. QED BY <2>1, Slice
<1>8. Cut(rest, 0, b) = Cut(Order, p, b)
  <2>1. \A i \in 1 .. b : Cut(rest, 0, b)[i] = Cut(Order, p, b)[i]
    <3>1. \A i \in 1 .. b : i \in 1 .. b + q
      OBVIOUS
    <3>. QED BY <1>3, <1>4, <1>5, <3>1
  <2>. QED BY <1>4, <1>5, <2>1, SeqEqual
<1>9. Cut(rest, b, q) = Cut(Order, p + b, q)
  <2>1. \A i \in 1 .. q : b + i \in 1 .. b + q /\ p + (b + i) = p + b + i
    OBVIOUS
  <2>2. \A i \in 1 .. q : Cut(rest, b, q)[i] = Cut(Order, p + b, q)[i]
    BY <1>3, <1>6, <1>7, <2>1
  <2>. QED BY <1>6, <1>7, <2>2, SeqEqual
<1>. QED BY <1>3, <1>4, <1>8, <1>9

LEMMA Product == ASSUME NEW x \in Nat, NEW y \in Nat PROVE x * y \in Nat
OBVIOUS

LEMMA Distributes ==
  ASSUME NEW x \in Int, NEW y \in Int, NEW z \in Int
  PROVE  (x + y) * z = x * z + y * z /\ x * z \in Int /\ 1 * z = z
OBVIOUS

(* While the plan has units left, the loader gives the next one whole.     *)
LEMMA Takes ==
  ASSUME PlaceInv, PlanInv, at \in Inside, args.bench = "resnet_train", Left > 0
  PROVE  /\ loader # <<>> /\ Batch = BatchNo(Taken + 1) /\ Len(Batch) = BATCH_SIZE
         /\ SubSeq(loader, Len(Batch) + 1, Len(loader)) =
              Cut(Order, (Taken + 1) * BATCH_SIZE, (Left - 1) * BATCH_SIZE)
<1>. DEFINE B == BATCH_SIZE
            p == Taken * B
            q == (Left - 1) * B
<1>1. B \in Nat \ {0} /\ Taken \in Nat /\ Left \in Nat /\ Left - 1 \in Nat /\ args.warmup \in Int /\ args.units \in Int
  <2>1. B \in Nat \ {0} /\ Taken \in Nat /\ args.warmup \in Int /\ args.units \in Int
    BY WorkloadAssumption DEF PlaceInv, IsSeq, Taken, Inside
  <2>. QED BY <2>1 DEF Left
<1>2. p \in Nat /\ q \in Nat
  BY <1>1, Product
<1>3. Left * B = B + q
  <2>1. Left = 1 + (Left - 1) /\ Left \in Int
    BY <1>1
  <2>. DEFINE l == Left - 1
  <2>2. l \in Int
    BY <1>1
  <2>. HIDE DEF l
  <2>3. (1 + l) * B = B + l * B
    BY <1>1, <2>2, Distributes
  <2>. QED BY <2>1, <2>3 DEF l
<1>4. p + B + q <= Len(Order)
  <2>1. Needed(args) = (Taken + Left) * B /\ Needed(args) <= Len(Order)
    BY <1>1 DEF PlaceInv, Accepts, Fits, Needed, Left
  <2>2. (Taken + Left) * B = p + B + q
    <3>1. (Taken + Left) * B = p + Left * B
      BY <1>1, Distributes
    <3>. QED BY <1>1, <1>2, <1>3, <3>1
  <2>. QED BY <2>1, <2>2
<1>5. loader = Cut(Order, p, B + q)
  BY <1>3 DEF PlanInv
<1>6. (Taken + 1) * B = p + B
  BY <1>1, Distributes
<1>7. /\ Len(loader) = B + q /\ Len(Cut(loader, 0, B)) = B
      /\ Cut(loader, 0, B) = Cut(Order, p, B) /\ Cut(loader, B, q) = Cut(Order, p + B, q)
  <2>. HIDE DEF p, q
  <2>. QED BY <1>1, <1>2, <1>4, <1>5, NextBatch
<1>8. Batch = Cut(loader, 0, B)
  <2>1. ~(Len(loader) < B) /\ 0 + 1 = 1 /\ 0 + B = B
    BY <1>1, <1>2, <1>7
  <2>. QED BY <2>1 DEF Batch, Cut
<1>9. SubSeq(loader, Len(Batch) + 1, Len(loader)) = Cut(loader, B, q)
  BY <1>7, <1>8 DEF Cut
<1>10. loader # <<>>
  BY <1>1, <1>2, <1>7, EmptyIsSeq
<1>11. Batch = BatchNo(Taken + 1)
  <2>2. BatchNo(Taken + 1) = Cut(Order, p, B)
    <3>. DEFINE k == Taken + 1
    <3>1. k - 1 = Taken
      BY <1>1
    <3>. HIDE DEF k
    <3>2. BatchNo(k) = Cut(Order, p, B)
      BY <3>1 DEF BatchNo
    <3>. QED BY <3>2 DEF k
  <2>. QED BY <1>7, <1>8, <2>2
<1>12. Cut(Order, p + B, q) = Cut(Order, (Taken + 1) * B, q)
  BY <1>6
<1>. QED BY <1>7, <1>8, <1>9, <1>10, <1>11, <1>12

----------------------------------------------------------------------------
LEMMA ArgsAreInts ==
  ASSUME PlaceInv, at # "none"
  PROVE  /\ args \in Arguments /\ args.bench \in Benchmarks
         /\ {args.units, args.warmup, args.size, args.batch} \subseteq Int
BY WorkloadAssumption DEF PlaceInv

LEMMA Lengths == ASSUME PlaceInv PROVE Len(warm) \in Nat /\ Len(work) \in Nat /\ Len(<<>>) = 0
BY EmptyIsSeq DEF PlaceInv, IsSeq

LEMMA PlaceStep == PlaceInv /\ [Next]_vars => PlaceInv'
<1>. SUFFICES ASSUME PlaceInv, [Next]_vars PROVE PlaceInv'
  OBVIOUS
<1>. USE EmptyIsSeq, Lengths DEF Inside
<1>1. CASE UNCHANGED vars
  BY <1>1 DEF PlaceInv, vars, process, locals, IsSeq, Accepts, InRange, Fits, Needed
<1>2. ASSUME NEW a \in Arguments, Launch(a) PROVE PlaceInv'
  BY <1>2 DEF PlaceInv, Launch, locals, IsSeq
<1>3. ASSUME NEW reason, Fail(reason) PROVE PlaceInv'
  BY <1>3 DEF PlaceInv, Fail, Leave, process, IsSeq
<1>4. CASE Setup
  BY <1>4, ArgsAreInts DEF PlaceInv, Setup, process, IsSeq, Accepts, InRange, Fits, Needed
<1>5. CASE WarmUp
  <2>1. PICK u : warm' = Append(warm, u)
    BY <1>5 DEF WarmUp
  <2>2. IsSeq(warm') /\ Len(warm') = Len(warm) + 1
    BY <2>1, Appended DEF PlaceInv
  <2>3. Len(warm') <= args.warmup
    BY <1>5, <2>2, ArgsAreInts DEF WarmUp, Warming
  <2>. QED BY <1>5, <2>2, <2>3
         DEF PlaceInv, WarmUp, Warming, process, IsSeq, Accepts, InRange, Fits, Needed
<1>6. CASE EnterRegion
  <2>1. Len(warm) = args.warmup /\ args.units >= 1
    BY <1>6, ArgsAreInts DEF PlaceInv, EnterRegion, Accepts, InRange
  <2>. QED BY <1>6, <2>1, ArgsAreInts
         DEF PlaceInv, EnterRegion, process, locals, IsSeq, Accepts, InRange, Fits, Needed
<1>7. CASE WorkOn
  <2>1. PICK u : work' = Append(work, u)
    BY <1>7 DEF WorkOn
  <2>2. IsSeq(work') /\ Len(work') = Len(work) + 1
    BY <2>1, Appended DEF PlaceInv
  <2>3. Len(work') <= args.units
    BY <1>7, <2>2, ArgsAreInts DEF WorkOn, Working
  <2>. QED BY <1>7, <2>2, <2>3
         DEF PlaceInv, WorkOn, Working, process, IsSeq, Accepts, InRange, Fits, Needed
<1>8. CASE Record
  <2>1. IsSeq(rows')
    BY <1>8, Appended DEF PlaceInv, Record
  <2>. QED BY <1>8, <2>1 DEF PlaceInv, Record, Done, Leave, process, IsSeq
<1>. QED
  BY <1>1, <1>2, <1>3, <1>4, <1>5, <1>6, <1>7, <1>8 DEF Next, Refuse, SetupRaises, UnitRaises, RejectResult

(* Accepted arguments leave the loader batches to the end, and give a      *)
(* WorkloadResult that its __post_init__ takes.                            *)
LEMMA FailureStep ==
  ASSUME PlaceInv, PlanInv, AcceptedIsRecorded, [Next]_vars PROVE AcceptedIsRecorded'
<1>1. CASE UNCHANGED failure
  BY <1>1 DEF AcceptedIsRecorded
<1>2. ASSUME NEW reason, Fail(reason), reason \notin {"starved", "rejected"}
      PROVE  AcceptedIsRecorded'
  BY <1>2 DEF Fail, AcceptedIsRecorded
<1>3. CASE UnitRaises
  <2>1. at \in Inside
    BY <1>3 DEF UnitRaises, Warming, Working, Inside
  <2>2. Left > 0
    <3>1. /\ args.warmup \in Int /\ args.units \in Int /\ Len(warm) \in Nat /\ Len(work) \in Nat
          /\ Len(<<>>) = 0 /\ args.units >= 1
      BY <2>1, ArgsAreInts, Lengths DEF Inside, PlaceInv, Accepts, InRange
    <3>2. \/ Len(warm) < args.warmup /\ Len(work) = 0
          \/ Len(warm) = args.warmup /\ Len(work) < args.units
      BY <1>3, <3>1 DEF UnitRaises, Warming, Working, PlaceInv
    <3>. QED BY <3>1, <3>2 DEF Left, Taken
  <2>3. ~Starved
    BY <2>1, <2>2, Takes DEF Starved
  <2>. QED BY <1>2, <1>3, <2>3 DEF UnitRaises
<1>4. CASE RejectResult
  <2>1. ExtraFields(PrecisionRecord) \cap REQUIRED_FIELDS = {}
    BY DEF ExtraFields
  <2>2. args.units \in Int /\ args.units >= 1
    BY <1>4, ArgsAreInts DEF RejectResult, Done, PlaceInv, Inside, Accepts, InRange
  <2>3. ~Rejected
    BY <2>1, <2>2 DEF Rejected, InnerIters
  <2>. QED BY <1>2, <1>4, <2>3 DEF RejectResult
<1>5. CASE Refuse \/ SetupRaises
  BY <1>2, <1>5 DEF Refuse, SetupRaises
<1>6. ASSUME \/ UNCHANGED vars \/ \E a \in Arguments : Launch(a)
             \/ Setup \/ WarmUp \/ EnterRegion \/ WorkOn \/ Record
      PROVE  UNCHANGED failure
  BY <1>6 DEF vars, Launch, Setup, WarmUp, EnterRegion, WorkOn, Record
<1>. QED BY <1>1, <1>3, <1>4, <1>5, <1>6 DEF Next

LEMMA PlanStep == PlaceInv /\ PlanInv /\ [Next]_vars => PlanInv'
<1>. SUFFICES ASSUME PlaceInv, PlanInv, [Next]_vars, (at \in Inside)', args'.bench = "resnet_train"
              PROVE  /\ init' = Seeded
                     /\ loader' = Cut(Order, Taken' * BATCH_SIZE, Left' * BATCH_SIZE)
                     /\ \A k \in 1 .. Len(warm') : warm'[k] = BatchNo(k)
                     /\ \A k \in 1 .. Len(work') : work'[k] = BatchNo(args'.warmup + k)
  BY DEF PlanInv, Seeded, BatchNo, Cut
<1>1. CASE UNCHANGED vars \/ EnterRegion
  <2>1. UNCHANGED <<args, init, loader, warm, work>> /\ at \in Inside
    BY <1>1 DEF vars, process, locals, EnterRegion, Inside
  <2>. QED BY <2>1 DEF PlanInv, Taken, Left
<1>2. CASE Setup
  <2>1. /\ at = "call" /\ warm' = <<>> /\ work' = <<>> /\ warm = <<>> /\ work = <<>> /\ args' = args
        /\ Accepts(args) /\ loader' = Planned(args) /\ init' = Seeded
    BY <1>2 DEF Setup, process, PlaceInv
  <2>2. Taken' = 0 /\ Left' = args.warmup + args.units /\ args.warmup \in Int /\ args.units \in Int
    BY <2>1, EmptyIsSeq, ArgsAreInts DEF Taken, Left
  <2>3. loader' = Cut(Order, Taken' * BATCH_SIZE, Left' * BATCH_SIZE)
    <3>1. BATCH_SIZE \in Int
      BY WorkloadAssumption
    <3>2. /\ Taken' * BATCH_SIZE = 0 /\ Left' * BATCH_SIZE = Needed(args) /\ Needed(args) \in Int
      BY <2>2, <3>1, Distributes DEF Needed
    <3>3. Planned(args) = Cut(Order, 0, Needed(args))
      BY <3>2 DEF Planned, Cut
    <3>. QED BY <2>1, <3>2, <3>3
  <2>. QED BY <2>1, <2>3, EmptyIsSeq
<1>3. ASSUME WarmUp \/ WorkOn
      PROVE  /\ Left > 0 /\ at \in Inside /\ UNCHANGED <<at, args, init>> /\ args.bench = "resnet_train"
             /\ Units = {BatchNo(Taken + 1)}
             /\ loader' = Cut(Order, (Taken + 1) * BATCH_SIZE, (Left - 1) * BATCH_SIZE)
  <2>1. at \in Inside /\ UNCHANGED <<at, args, init>> /\ args.bench = "resnet_train"
    BY <1>3 DEF WarmUp, WorkOn, Warming, Working, process, Inside
  <2>2. Left > 0
    <3>1. /\ args.warmup \in Int /\ args.units \in Int /\ Len(warm) \in Nat /\ Len(work) \in Nat
          /\ Len(<<>>) = 0 /\ args.units >= 1
      BY <2>1, ArgsAreInts, Lengths DEF Inside, PlaceInv, Accepts, InRange
    <3>2. \/ Len(warm) < args.warmup /\ Len(work) = 0
          \/ Len(warm) = args.warmup /\ Len(work) < args.units
      BY <1>3, <3>1 DEF WarmUp, WorkOn, Warming, Working, PlaceInv
    <3>. QED BY <3>1, <3>2 DEF Left, Taken
  <2>3. /\ Batch = BatchNo(Taken + 1) /\ Batch # <<>>
        /\ SubSeq(loader, Len(Batch) + 1, Len(loader)) =
             Cut(Order, (Taken + 1) * BATCH_SIZE, (Left - 1) * BATCH_SIZE)
    BY <2>1, <2>2, Takes, EmptyIsSeq, WorkloadAssumption
  <2>4. loader' = SubSeq(loader, Len(Batch) + 1, Len(loader))
    BY <1>3, <2>1 DEF WarmUp, WorkOn, Take
  <2>. QED BY <2>1, <2>2, <2>3, <2>4 DEF Units
<1>4. CASE WarmUp
  <2>0. /\ Left > 0 /\ at \in Inside /\ UNCHANGED <<at, args, init>> /\ args.bench = "resnet_train"
        /\ Units = {BatchNo(Taken + 1)}
        /\ loader' = Cut(Order, (Taken + 1) * BATCH_SIZE, (Left - 1) * BATCH_SIZE)
    BY <1>3, <1>4
  <2>1. /\ warm' = Append(warm, BatchNo(Taken + 1)) /\ work = <<>> /\ work' = <<>>
        /\ args.bench # "llm_inference"
    BY <2>0, <1>4 DEF WarmUp, Warming, PlaceInv
  <2>2. Taken = Len(warm) /\ Taken' = Taken + 1 /\ Left' = Left - 1 /\ Len(warm) \in Nat
        /\ Len(warm') = Len(warm) + 1
    <3>1. Len(warm') = Len(warm) + 1 /\ Len(warm) \in Nat
      BY <2>1, Appended, Lengths DEF PlaceInv
    <3>2. args' = args /\ args.warmup \in Int /\ args.units \in Int
      BY <2>0, ArgsAreInts DEF Inside
    <3>3. Len(work) = 0 /\ Len(work') = 0
      BY <2>1, EmptyIsSeq
    <3>. QED BY <3>1, <3>2, <3>3 DEF Taken, Left
  <2>3. \A k \in 1 .. Len(warm') : warm'[k] = BatchNo(k)
    BY <2>0, <2>1, <2>2, Appended DEF PlaceInv, PlanInv
  <2>. QED BY <2>0, <2>1, <2>2, <2>3, EmptyIsSeq DEF PlanInv
<1>5. CASE WorkOn
  <2>0. /\ Left > 0 /\ at \in Inside /\ UNCHANGED <<at, args, init>> /\ args.bench = "resnet_train"
        /\ Units = {BatchNo(Taken + 1)}
        /\ loader' = Cut(Order, (Taken + 1) * BATCH_SIZE, (Left - 1) * BATCH_SIZE)
    BY <1>3, <1>5
  <2>1. work' = Append(work, BatchNo(Taken + 1)) /\ warm' = warm /\ Len(warm) = args.warmup
    BY <2>0, <1>5 DEF WorkOn, Working, PlaceInv
  <2>2. /\ Taken = args.warmup + Len(work) /\ Taken' = Taken + 1 /\ Left' = Left - 1
        /\ Len(work) \in Nat /\ Len(work') = Len(work) + 1 /\ args' = args
        /\ Taken + 1 = args.warmup + (Len(work) + 1)
    <3>1. Len(work') = Len(work) + 1 /\ Len(work) \in Nat /\ Len(warm) \in Nat
      BY <2>1, Appended, Lengths DEF PlaceInv
    <3>2. args' = args /\ args.warmup \in Int /\ args.units \in Int
      BY <2>0, ArgsAreInts DEF Inside
    <3>. QED BY <2>1, <3>1, <3>2 DEF Taken, Left
  <2>3. \A k \in 1 .. Len(work') : work'[k] = BatchNo(args.warmup + k)
    <3>1. \A k \in 1 .. Len(work) : work'[k] = BatchNo(args.warmup + k)
      BY <2>0, <2>1, Appended DEF PlaceInv, PlanInv
    <3>2. work'[Len(work) + 1] = BatchNo(args.warmup + (Len(work) + 1))
      BY <2>1, <2>2, Appended DEF PlaceInv
    <3>. QED BY <2>2, <3>1, <3>2
  <2>. QED BY <2>0, <2>1, <2>2, <2>3 DEF PlanInv
<1>6. ASSUME (\E a \in Arguments : Launch(a)) \/ Refuse \/ SetupRaises \/ UnitRaises
               \/ RejectResult \/ Record
      PROVE  FALSE
  BY <1>6 DEF Launch, Refuse, SetupRaises, UnitRaises, RejectResult, Fail, Record, Inside
<1>. QED BY <1>1, <1>2, <1>4, <1>5, <1>6 DEF Next

LEMMA UnitStep == PlaceInv /\ UnitInv /\ [Next]_vars => UnitInv'
<1>. SUFFICES ASSUME PlaceInv, UnitInv, [Next]_vars, (at \in Inside)'
              PROVE  /\ args'.bench = "matmul" => \A k \in 1 .. Len(work') : work'[k] = Multiply'
                     /\ args'.bench = "llm_inference" =>
                          \A k \in 1 .. Len(work') : work'[k] \in Generated'
  BY DEF UnitInv
<1>1. CASE Setup
  <2>1. work' = <<>>
    BY <1>1 DEF Setup, PlaceInv
  <2>. QED BY <2>1, EmptyIsSeq
<1>2. CASE WorkOn
  <2>1. PICK u \in Units : work' = Append(work, u)
    BY <1>2 DEF WorkOn
  <2>2. UNCHANGED args /\ at \in Inside
    BY <1>2 DEF WorkOn, Working, process, Inside
  <2>3. /\ args.bench = "matmul" => u = Multiply
        /\ args.bench = "llm_inference" => u \in Generated
    BY <2>1 DEF Units
  <2>4. /\ Len(work) \in Nat /\ Len(work') = Len(work) + 1 /\ work'[Len(work) + 1] = u
        /\ \A k \in 1 .. Len(work) : work'[k] = work[k]
    BY <2>1, Appended, Lengths DEF PlaceInv
  <2>5. Multiply' = Multiply /\ Generated' = Generated
    BY <2>2 DEF Multiply, Generated
  <2>. QED BY <2>2, <2>3, <2>4, <2>5 DEF UnitInv
<1>3. ASSUME UNCHANGED vars \/ EnterRegion \/ WarmUp
      PROVE  UNCHANGED <<args, work>> /\ at \in Inside
  BY <1>3 DEF vars, process, locals, EnterRegion, WarmUp, Warming, Inside
<1>4. CASE UNCHANGED vars \/ EnterRegion \/ WarmUp
  <2>1. Multiply' = Multiply /\ Generated' = Generated
    BY <1>3, <1>4 DEF Multiply, Generated
  <2>. QED BY <1>3, <1>4, <2>1 DEF UnitInv
<1>5. ASSUME (\E a \in Arguments : Launch(a)) \/ Refuse \/ SetupRaises \/ UnitRaises
               \/ RejectResult \/ Record
      PROVE  FALSE
  BY <1>5 DEF Launch, Refuse, SetupRaises, UnitRaises, RejectResult, Fail, Record, Inside
<1>. QED BY <1>1, <1>2, <1>4, <1>5 DEF Next

----------------------------------------------------------------------------
(* What is appended is a row of the process's arguments.                   *)
LEMMA RowMatches ==
  ASSUME PlaceInv, PlanInv, UnitInv, Done, ~Short PROVE Matches(Row, args)
<1>1. /\ at = "region" /\ Accepts(args) /\ Len(warm) = args.warmup /\ Len(work) = args.units
      /\ args.units \in Nat /\ args.units >= 1 /\ args.bench \in Benchmarks
      /\ args.batch \in Int /\ args.size \in Int
  <2>1. at = "region" /\ Accepts(args) /\ Len(warm) = args.warmup /\ Len(work) <= args.units
    BY DEF Done, PlaceInv, Inside
  <2>. QED BY <2>1, ArgsAreInts, Lengths DEF Done, Accepts, InRange
<1>2. /\ warm = [k \in 1 .. args.warmup |-> warm[k]] /\ work = [k \in 1 .. args.units |-> work[k]]
  BY <1>1 DEF PlaceInv, IsSeq
<1>3. /\ Row.workload = args.bench /\ Row.inner_iters = args.units /\ Row.work_hash = WorkHash
      /\ Row.config_id = ConfigId
      /\ Row.identical = (args.bench = "llm_inference" => IterationsIdentical)
      /\ Row.did = IF args.bench = "resnet_train" THEN [init |-> init, warm |-> warm, work |-> work]
                   ELSE [init |-> NoRng, warm |-> <<>>, work |-> work]
  BY DEF Row, InnerIters
<1>4. CASE args.bench = "resnet_train"
  <2>1. init = Seeded /\ \A k \in 1 .. args.warmup : warm[k] = BatchNo(k)
    BY <1>1, <1>4 DEF PlanInv, Inside
  <2>2. \A k \in 1 .. args.units : work[k] = BatchNo(args.warmup + k)
    BY <1>1, <1>4 DEF PlanInv, Inside
  <2>3. /\ warm = [k \in 1 .. args.warmup |-> BatchNo(k)]
        /\ work = [k \in 1 .. args.units |-> BatchNo(args.warmup + k)]
    BY <1>2, <2>1, <2>2
  <2>4. WorkHash = <<args.units, args.warmup, Planned(args)>>
    BY <1>4 DEF WorkHash, ResnetHash
  <2>. QED BY <1>1, <1>3, <1>4, <2>1, <2>3, <2>4 DEF Matches
<1>5. CASE args.bench = "matmul"
  <2>1. \A k \in 1 .. args.units : work[k] = <<args.size, args.size>>
    BY <1>1, <1>5 DEF UnitInv, Multiply, Inside
  <2>2. work = [k \in 1 .. args.units |-> <<args.size, args.size>>]
    BY <1>2, <2>1
  <2>3. WorkHash = <<args.size, args.units>>
    BY <1>5 DEF WorkHash, MatmulHash
  <2>. QED BY <1>1, <1>3, <1>5, <2>2, <2>3 DEF Matches
<1>6. CASE args.bench = "llm_inference"
  <2>1. /\ Row.did.work = work /\ Row.did = [init |-> NoRng, warm |-> <<>>, work |-> Row.did.work]
    BY <1>3, <1>6
  <2>2. Output = work[args.units] /\ Output \in Generated /\ args.batch >= 1
    BY <1>1, <1>6 DEF Output, UnitInv, Accepts, Inside
  <2>3. Output \in [1 .. args.batch -> [1 .. args.size -> Tokens]]
    <3>. DEFINE rowsOf(n) == [1 .. args.batch -> [1 .. n -> Tokens]]
    <3>1. Output \in rowsOf(args.size) \/ (args.size > 1 /\ Output \in rowsOf(args.size - 1))
      BY <2>2 DEF Generated
    <3>2. ASSUME args.size > 1, Output \in rowsOf(args.size - 1) PROVE FALSE
      <4>. DEFINE n == args.size - 1
      <4>1. n \in Nat /\ n # args.size
        BY <1>1, <3>2
      <4>2. Output[1] \in [1 .. n -> Tokens]
        BY <1>1, <2>2, <3>2
      <4>. HIDE DEF n
      <4>3. Output[1] \in Seq(Tokens)
        BY <4>1, <4>2, SeqDef
      <4>4. Len(Output[1]) = n
        BY <4>1, <4>2, <4>3
      <4>. QED BY <1>6, <4>1, <4>4 DEF Short
    <3>. QED BY <3>1, <3>2
  <2>4. Row.identical => \A k \in 1 .. args.units : work[k] = work[1]
    BY <1>1, <1>3, <1>6 DEF IterationsIdentical
  <2>5. WorkHash = [k \in 1 .. args.batch * args.size |->
                      work[args.units][((k - 1) \div args.size) + 1][((k - 1) % args.size) + 1]]
    BY <1>6, <2>2 DEF WorkHash, TokenHash
  <2>6. ConfigId = <<"b", args.batch, "n", args.size, "i", args.units>>
    BY <1>6 DEF ConfigId
  <2>7. Row.longest = LongestRepeat(work[args.units][1])
    BY <1>6, <2>2 DEF Row
  <2>8. OfTokens(Row, args)
    BY <1>1, <1>3, <2>1, <2>2, <2>3, <2>4, <2>5, <2>6, <2>7 DEF OfTokens, PlaceInv
  <2>. QED BY <1>1, <1>3, <1>6, <2>8 DEF Matches
<1>. QED BY <1>1, <1>4, <1>5, <1>6 DEF Benchmarks

LEMMA RowStep ==
  ASSUME PlaceInv, PlanInv, UnitInv, RowInv, [Next]_vars PROVE RowInv'
<1>0. ASSUME NEW r, NEW a PROVE Matches(r, a)' <=> Matches(r, a)
  BY DEF Matches, OfTokens, Accepts, InRange, Fits, Needed, Planned, BatchNo, Cut, Seeded, IsSeq,
    LongestRepeat, HasRepeat
<1>1. CASE UNCHANGED rows
  BY <1>0, <1>1 DEF RowInv
<1>2. CASE Record
  <2>1. /\ rows' = Append(rows, Row) /\ Done /\ ~Short /\ args \in Arguments
    BY <1>2 DEF Record, Done, PlaceInv
  <2>2. /\ Len(rows) \in Nat /\ Len(rows') = Len(rows) + 1 /\ rows'[Len(rows) + 1] = Row
        /\ \A i \in 1 .. Len(rows) : rows'[i] = rows[i]
    BY <2>1, Appended DEF PlaceInv, IsSeq
  <2>3. Matches(Row, args)
    BY <2>1, RowMatches
  <2>4. \A i \in 1 .. Len(rows') : \E a \in Arguments : Matches(rows'[i], a)
    BY <2>1, <2>2, <2>3 DEF RowInv
  <2>. QED BY <1>0, <2>4 DEF RowInv
<1>3. ASSUME \/ UNCHANGED vars \/ \E a \in Arguments : Launch(a)
             \/ Refuse \/ SetupRaises \/ Setup \/ WarmUp \/ EnterRegion \/ WorkOn \/ UnitRaises
             \/ RejectResult
      PROVE  UNCHANGED rows
  BY <1>3 DEF vars, Launch, Refuse, SetupRaises, Setup, WarmUp, EnterRegion, WorkOn, UnitRaises,
    RejectResult, Fail
<1>. QED BY <1>1, <1>2, <1>3 DEF Next

----------------------------------------------------------------------------
(* The inductive invariant: how far run() has come says what is done, and  *)
(* each row is of the arguments of some process.                           *)
THEOREM WorkloadInvariant == Spec => []IInv
<1>1. Init => IInv
  BY EmptyIsSeq
     DEF Init, IInv, PlaceInv, PlanInv, UnitInv, RowInv, AcceptedIsRecorded, Inside
<1>2. IInv /\ [Next]_vars => IInv'
  BY PlaceStep, PlanStep, UnitStep, RowStep, FailureStep DEF IInv
<1>. QED BY <1>1, <1>2, PTL DEF Spec

(* The checks at the top of run() are enough: what they let through is not *)
(* refused later for want of data or for the record it gives.              *)
THEOREM ChecksSuffice == Spec => []AcceptedIsRecorded
<1>1. IInv => AcceptedIsRecorded
  BY DEF IInv
<1>. QED BY <1>1, WorkloadInvariant, PTL

(* Where token c of row r is in the hash.                                  *)
LEMMA PlaceOfToken ==
  ASSUME NEW n \in Nat \ {0}, NEW r \in Nat, NEW c \in 0 .. n - 1, NEW b \in Nat, r < b
  PROVE  /\ (r * n + c) \div n = r /\ (r * n + c) % n = c
         /\ r * n + c + 1 \in 1 .. b * n
<1>1. (r * n + c) \div n = r
  OBVIOUS
<1>2. (r * n + c) % n = c
  OBVIOUS
<1>3. r * n + c \in Nat
  BY Product
<1>4. r * n + c + 1 <= b * n
  <2>1. b * n = (r + 1) * n + (b - (r + 1)) * n /\ (r + 1) * n = r * n + n
    <3>. DEFINE d == b - (r + 1)
    <3>1. d \in Nat /\ b = (r + 1) + d
      OBVIOUS
    <3>. HIDE DEF d
    <3>2. ((r + 1) + d) * n = (r + 1) * n + d * n /\ (r + 1) * n = r * n + n
      BY <3>1, Distributes
    <3>. QED BY <3>1, <3>2 DEF d
  <2>2. (b - (r + 1)) * n \in Nat
    BY Product
  <2>. QED BY <2>1, <2>2, <1>3
<1>. QED BY <1>1, <1>2, <1>3, <1>4, Product

(* The hash of a generation is that of no other of the same shape.         *)
LEMMA HashIsTokens ==
  ASSUME NEW b \in Nat, NEW n \in Nat \ {0},
         NEW x \in [1 .. b -> [1 .. n -> Tokens]], NEW y \in [1 .. b -> [1 .. n -> Tokens]],
         \A k \in 1 .. b * n :
           x[((k - 1) \div n) + 1][((k - 1) % n) + 1] = y[((k - 1) \div n) + 1][((k - 1) % n) + 1]
  PROVE  x = y
<1>1. ASSUME NEW r \in 1 .. b, NEW c \in 1 .. n PROVE x[r][c] = y[r][c]
  <2>. DEFINE k == (r - 1) * n + (c - 1) + 1
              s == r - 1
              d == c - 1
  <2>1. s \in Nat /\ s < b /\ d \in 0 .. n - 1 /\ s + 1 = r /\ d + 1 = c
    OBVIOUS
  <2>2. (s * n + d) \div n = s /\ (s * n + d) % n = d /\ s * n + d + 1 \in 1 .. b * n
    <3>. HIDE DEF s, d
    <3>. QED BY <2>1, PlaceOfToken
  <2>3. k - 1 = s * n + d /\ k \in 1 .. b * n
    BY <2>2
  <2>4. x[((k - 1) \div n) + 1][((k - 1) % n) + 1] = y[((k - 1) \div n) + 1][((k - 1) % n) + 1]
    <3>. HIDE DEF k
    <3>. QED BY <2>3
  <2>5. ((k - 1) \div n) + 1 = r /\ ((k - 1) % n) + 1 = c
    <3>. HIDE DEF k, s, d
    <3>. QED BY <2>1, <2>2, <2>3
  <2>. HIDE DEF k
  <2>. QED BY <2>4, <2>5
<1>2. \A r \in 1 .. b : x[r] = y[r]
  BY <1>1
<1>. QED BY <1>2

(* config_id and work_hash: rows that the analysis would pool come from    *)
(* repetitions that did the same work.                                     *)
THEOREM PooledRowsAreAlike == Spec => []EqualRowsEqualWork
<1>1. IInv => EqualRowsEqualWork
  <2>. SUFFICES ASSUME IInv, NEW i \in 1 .. Len(rows), NEW j \in 1 .. Len(rows),
                       rows[i].workload = rows[j].workload, rows[i].config_id = rows[j].config_id,
                       rows[i].work_hash = rows[j].work_hash,
                       rows[i].identical, rows[j].identical
                PROVE  rows[i].did = rows[j].did
    BY DEF EqualRowsEqualWork
  <2>. DEFINE r == rows[i]
              s == rows[j]
  <2>1. PICK a \in Arguments : Matches(r, a)
    BY DEF IInv, RowInv
  <2>2. PICK b \in Arguments : Matches(s, b)
    BY DEF IInv, RowInv
  <2>3. a.bench = b.bench /\ a.bench \in Benchmarks /\ {a.units, a.warmup, a.size, a.batch} \subseteq Int
    BY <2>1, <2>2, WorkloadAssumption DEF Matches
  <2>4. CASE a.bench = "resnet_train"
    <3>1. /\ r.work_hash = <<a.units, a.warmup, Planned(a)>>
          /\ s.work_hash = <<b.units, b.warmup, Planned(b)>>
      BY <2>1, <2>2, <2>3, <2>4 DEF Matches
    <3>2. a.units = b.units /\ a.warmup = b.warmup
      <4>1. <<a.units, a.warmup, Planned(a)>> = <<b.units, b.warmup, Planned(b)>>
        BY <3>1
      <4>. QED BY <4>1
    <3>. QED BY <2>1, <2>2, <2>3, <2>4, <3>2 DEF Matches
  <2>5. CASE a.bench = "matmul"
    <3>1. r.work_hash = <<a.size, a.units>> /\ s.work_hash = <<b.size, b.units>>
      BY <2>1, <2>2, <2>3, <2>5 DEF Matches
    <3>2. a.units = b.units /\ a.size = b.size
      <4>1. <<a.size, a.units>> = <<b.size, b.units>>
        BY <3>1
      <4>. QED BY <4>1
    <3>. QED BY <2>1, <2>2, <2>3, <2>5, <3>2 DEF Matches
  <2>6. CASE a.bench = "llm_inference"
    <3>1. OfTokens(r, a) /\ OfTokens(s, b)
      BY <2>1, <2>2, <2>3, <2>6 DEF Matches
    <3>2. a.batch = b.batch /\ a.size = b.size /\ a.units = b.units
      <4>1. <<"b", a.batch, "n", a.size, "i", a.units>> = <<"b", b.batch, "n", b.size, "i", b.units>>
        BY <3>1 DEF OfTokens
      <4>. QED BY <4>1
    <3>3. a.units \in Nat /\ a.units >= 1 /\ a.batch \in Nat /\ a.size \in Nat \ {0}
      BY <2>1, <2>3, <2>6 DEF Matches, Accepts, InRange
    <3>. DEFINE v == r.did.work
                w == s.did.work
                x == v[a.units]
                y == w[a.units]
    <3>4. x \in [1 .. a.batch -> [1 .. a.size -> Tokens]] /\ y \in [1 .. a.batch -> [1 .. a.size -> Tokens]]
      BY <3>1, <3>2 DEF OfTokens
    <3>5. \A k \in 1 .. a.batch * a.size :
            x[((k - 1) \div a.size) + 1][((k - 1) % a.size) + 1] =
              y[((k - 1) \div a.size) + 1][((k - 1) % a.size) + 1]
      <4>. DEFINE X(k) == x[((k - 1) \div a.size) + 1][((k - 1) % a.size) + 1]
                  Y(k) == y[((k - 1) \div a.size) + 1][((k - 1) % a.size) + 1]
      <4>1. r.work_hash = [k \in 1 .. a.batch * a.size |-> X(k)]
        BY <3>1 DEF OfTokens
      <4>2. s.work_hash = [k \in 1 .. a.batch * a.size |-> Y(k)]
        BY <3>1, <3>2 DEF OfTokens
      <4>. HIDE DEF X, Y
      <4>3. \A k \in 1 .. a.batch * a.size : X(k) = Y(k)
        <5>. DEFINE F == [k \in 1 .. a.batch * a.size |-> X(k)]
                    G == [k \in 1 .. a.batch * a.size |-> Y(k)]
        <5>1. F = G
          BY <4>1, <4>2
        <5>2. \A k \in 1 .. a.batch * a.size : F[k] = X(k) /\ G[k] = Y(k)
          OBVIOUS
        <5>. HIDE DEF F, G
        <5>. QED BY <5>1, <5>2
      <4>. QED BY <4>3 DEF X, Y
    <3>6. x = y
      <4>. HIDE DEF x, y
      <4>. QED BY <3>3, <3>4, <3>5, HashIsTokens
    <3>7. \A k \in 1 .. a.units : v[k] = v[1] /\ w[k] = w[1]
      BY <3>1, <3>2 DEF OfTokens
    <3>8. \A k \in 1 .. a.units : v[k] = w[k]
      <4>1. a.units \in 1 .. a.units
        BY <3>3
      <4>2. v[1] = x /\ w[1] = y
        BY <3>7, <4>1
      <4>. QED BY <3>6, <3>7, <4>2
    <3>9. IsSeq(v) /\ IsSeq(w) /\ Len(v) = a.units /\ Len(w) = a.units
      BY <3>1, <3>2 DEF OfTokens
    <3>10. v = w
      <4>. HIDE DEF v, w
      <4>. QED BY <3>8, <3>9, SameSeq
    <3>11. /\ r.did = [init |-> NoRng, warm |-> <<>>, work |-> v]
           /\ s.did = [init |-> NoRng, warm |-> <<>>, work |-> w]
      BY <3>1 DEF OfTokens
    <3>. QED BY <3>10, <3>11
  <2>. QED BY <2>3, <2>4, <2>5, <2>6 DEF Benchmarks
<1>. QED BY <1>1, WorkloadInvariant, PTL

----------------------------------------------------------------------------
LEMMA LenOfFunction ==
  ASSUME NEW n \in Nat, NEW S, NEW f \in [1 .. n -> S]
  PROVE  f \in Seq(S) /\ Len(f) = n
<1>1. f \in Seq(S)
  BY SeqDef
<1>. QED BY <1>1, LenProperties

(* Batch k is whole, and its samples are the dataset's from its place on.  *)
LEMMA BatchIsWhole ==
  ASSUME NEW total \in Nat, total * BATCH_SIZE <= Len(Order), NEW k \in 1 .. total
  PROVE  /\ BatchNo(k) \in Seq(Nat) /\ Len(BatchNo(k)) = BATCH_SIZE
         /\ \A n \in 1 .. BATCH_SIZE :
              /\ BatchNo(k)[n] = Order[(k - 1) * BATCH_SIZE + n]
              /\ (k - 1) * BATCH_SIZE + n \in 1 .. total * BATCH_SIZE
<1>. DEFINE r == k - 1
            p == r * BATCH_SIZE
<1>1. BATCH_SIZE \in Nat \ {0} /\ r \in Nat /\ r < total /\ Len(Order) \in Nat
      /\ \A i \in 1 .. Len(Order) : Order[i] \in Nat
  BY WorkloadAssumption, LenProperties, ElementOfSeq
<1>2. p \in Nat
  BY <1>1, Product
<1>3. ASSUME NEW n \in 1 .. BATCH_SIZE PROVE p + n \in 1 .. total * BATCH_SIZE
  <2>. DEFINE c == n - 1
  <2>1. c \in 0 .. BATCH_SIZE - 1 /\ c + 1 = n
    BY <1>1
  <2>2. r * BATCH_SIZE + c + 1 \in 1 .. total * BATCH_SIZE
    <3>. HIDE DEF c, r, p
    <3>. QED BY <1>1, <2>1, PlaceOfToken
  <2>3. r * BATCH_SIZE + c + 1 = p + n
    BY <1>1, <1>2, <2>1
  <2>. QED BY <2>2, <2>3
<1>4. \A n \in 1 .. BATCH_SIZE : Order[p + n] \in Nat
  <2>1. ASSUME NEW n \in 1 .. BATCH_SIZE PROVE Order[p + n] \in Nat
    <3>1. p + n \in 1 .. Len(Order)
      <4>1. p + n \in 1 .. total * BATCH_SIZE /\ total * BATCH_SIZE \in Nat
        BY <1>1, <1>3, Product
      <4>. HIDE DEF p
      <4>. QED BY <1>1, <4>1
    <3>. QED BY <1>1, <3>1
  <2>. QED BY <2>1
<1>5. /\ Cut(Order, p, BATCH_SIZE) \in Seq(Nat) /\ Len(Cut(Order, p, BATCH_SIZE)) = BATCH_SIZE
      /\ \A n \in 1 .. BATCH_SIZE : Cut(Order, p, BATCH_SIZE)[n] = Order[p + n]
  <2>. HIDE DEF p
  <2>. QED BY <1>1, <1>2, <1>4, Slice
<1>. QED BY <1>3, <1>5 DEF BatchNo

(* The first m samples are m different ones.                               *)
LEMMA SamplesDiffer ==
  ASSUME NEW m \in Nat, m <= Len(Order)
  PROVE  Cardinality({Order[i] : i \in 1 .. m}) = m
<1>. DEFINE T == {Order[i] : i \in 1 .. m}
            f == [i \in 1 .. m |-> Order[i]]
<1>1. \A i, j \in 1 .. m : Order[i] = Order[j] => i = j
  <2>1. 1 .. m \subseteq 1 .. Len(Order)
    BY WorkloadAssumption, LenProperties
  <2>. QED BY <2>1, WorkloadAssumption
<1>2. f \in Bijection(1 .. m, T)
  BY <1>1, Zenon DEF Bijection, Injection, Surjection, IsInjective
<1>3. ExistsBijection(1 .. m, T)
  BY <1>2, Zenon DEF ExistsBijection
<1>4. IsFiniteSet(1 .. m) /\ Cardinality(1 .. m) = m
  BY FS_Interval
<1>. QED BY <1>3, <1>4, FS_Bijection

(* Each sample of the first t batches is in one of them.                   *)
LEMMA BatchOfSample ==
  ASSUME NEW n \in Nat \ {0}, NEW t \in Nat, NEW x \in Nat, x < t * n
  PROVE  /\ x \div n \in 0 .. t - 1 /\ x % n \in 0 .. n - 1
         /\ (x \div n) * n + (x % n) = x
<1>1. x \div n \in Int
  OBVIOUS
<1>2. x % n \in 0 .. n - 1
  OBVIOUS
<1>3. x = n * (x \div n) + (x % n)
  OBVIOUS
<1>. DEFINE q == x \div n
            c == x % n
<1>4. q \in Int /\ c \in 0 .. n - 1 /\ x = n * q + c
  BY <1>1, <1>2, <1>3
<1>. HIDE DEF q, c
<1>5. q >= 0
  <2>1. CASE q < 0
    <3>. DEFINE d == 0 - 1 - q
    <3>1. d \in Nat /\ q = (0 - 1) - d
      BY <1>4, <2>1
    <3>2. d * n \in Nat
      BY <3>1, Product
    <3>3. n * q = 0 - n - d * n
      BY <1>4, <3>1
    <3>. QED BY <1>4, <3>2, <3>3
  <2>. QED BY <1>4, <2>1
<1>6. q < t
  <2>1. CASE q >= t
    <3>. DEFINE d == q - t
    <3>1. d \in Nat /\ q = t + d
      BY <1>4, <2>1
    <3>2. d * n \in Nat /\ t * n \in Nat
      BY <3>1, Product
    <3>3. n * q = t * n + d * n
      <4>. HIDE DEF d
      <4>. QED BY <3>1, Distributes
    <3>. QED BY <1>4, <3>2, <3>3
  <2>. QED BY <1>4, <2>1
<1>7. q * n = n * q
  BY <1>4
<1>. QED BY <1>4, <1>5, <1>6, <1>7 DEF q, c

(* inner_iters: there are as many units in the region as it says, and they *)
(* are alike, in a row of llm_inference if the row itself says so; and no  *)
(* sample was trained on twice.                                            *)
THEOREM UnitsAreAlike == Spec => []EnergyIsPerUnit
<1>1. IInv => EnergyIsPerUnit
  <2>. SUFFICES ASSUME IInv, NEW i \in 1 .. Len(rows)
                PROVE  LET r == rows[i]
                           all == r.did.warm \o r.did.work
                       IN  /\ Len(r.did.work) = r.inner_iters
                           /\ r.workload # "resnet_train" /\ r.identical =>
                                \A k \in 1 .. r.inner_iters : r.did.work[k] = r.did.work[1]
                           /\ r.workload = "resnet_train" =>
                                /\ \A k \in 1 .. Len(all) : Len(all[k]) = BATCH_SIZE
                                /\ Cardinality(UNION {{all[k][n] : n \in 1 .. BATCH_SIZE} : k \in 1 .. Len(all)})
                                     = BATCH_SIZE * Len(all)
    BY DEF EnergyIsPerUnit
  <2>. DEFINE r == rows[i]
  <2>1. PICK a \in Arguments : Matches(r, a)
    BY DEF IInv, RowInv
  <2>2. /\ a.bench \in Benchmarks /\ {a.units, a.warmup} \subseteq Int /\ Accepts(a)
        /\ a.units \in Nat /\ a.warmup \in Nat /\ r.workload = a.bench /\ r.inner_iters = a.units
    BY <2>1, WorkloadAssumption DEF Matches, Accepts, InRange
  <2>3. CASE a.bench = "llm_inference"
    BY <2>1, <2>2, <2>3 DEF Matches, OfTokens
  <2>4. CASE a.bench = "matmul"
    <3>0. r.did = [init |-> NoRng, warm |-> <<>>, work |-> [k \in 1 .. a.units |-> <<a.size, a.size>>]]
      BY <2>1, <2>4 DEF Matches
    <3>1. r.did.work = [k \in 1 .. a.units |-> <<a.size, a.size>>]
      BY <3>0
    <3>2. r.did.work \in [1 .. a.units -> {<<a.size, a.size>>}]
      BY <3>1
    <3>3. \A k \in 1 .. a.units : r.did.work[k] = r.did.work[1]
      <4>1. 1 \in 1 .. a.units
        BY <2>2 DEF Accepts, InRange
      <4>. QED BY <3>1, <4>1
    <3>. QED BY <2>2, <2>4, <3>2, <3>3, LenOfFunction
  <2>5. CASE a.bench = "resnet_train"
    <3>. DEFINE v == r.did.warm
                w == r.did.work
                all == v \o w
                total == a.warmup + a.units
                S == {BatchNo(k) : k \in 1 .. total}
    <3>0. BATCH_SIZE \in Nat \ {0} /\ total \in Nat /\ Len(Order) \in Nat
      BY <2>2, WorkloadAssumption, LenProperties
    <3>1. v = [k \in 1 .. a.warmup |-> BatchNo(k)] /\ w = [k \in 1 .. a.units |-> BatchNo(a.warmup + k)]
      <4>1. r.did = [init |-> Seeded, warm |-> [k \in 1 .. a.warmup |-> BatchNo(k)],
                     work |-> [k \in 1 .. a.units |-> BatchNo(a.warmup + k)]]
        BY <2>1, <2>5 DEF Matches
      <4>. QED BY <4>1
    <3>2. v \in [1 .. a.warmup -> S] /\ w \in [1 .. a.units -> S]
      <4>1. \A k \in 1 .. a.warmup : k \in 1 .. total
        BY <2>2
      <4>2. \A k \in 1 .. a.units : a.warmup + k \in 1 .. total
        BY <2>2
      <4>. HIDE DEF total
      <4>. QED BY <3>1, <4>1, <4>2
    <3>3. v \in Seq(S) /\ w \in Seq(S) /\ Len(v) = a.warmup /\ Len(w) = a.units
      <4>. HIDE DEF S, v, w
      <4>. QED BY <2>2, <3>2, LenOfFunction
    <3>4. Len(all) = total /\ \A k \in 1 .. total : all[k] = BatchNo(k)
      <4>1. /\ Len(all) = total
            /\ \A k \in 1 .. total : all[k] = IF k <= a.warmup THEN v[k] ELSE w[k - a.warmup]
        <5>1. /\ Len(v \o w) = Len(v) + Len(w)
              /\ \A k \in 1 .. Len(v) + Len(w) :
                   (v \o w)[k] = IF k <= Len(v) THEN v[k] ELSE w[k - Len(v)]
          <6>. HIDE DEF S, v, w
          <6>. QED BY <3>3, ConcatProperties
        <5>. HIDE DEF S, v, w
        <5>. QED BY <3>3, <5>1
      <4>2. ASSUME NEW k \in 1 .. total, k <= a.warmup PROVE v[k] = BatchNo(k)
        BY <2>2, <3>1, <4>2
      <4>3. ASSUME NEW k \in 1 .. total, ~(k <= a.warmup) PROVE w[k - a.warmup] = BatchNo(k)
        <5>1. k - a.warmup \in 1 .. a.units /\ a.warmup + (k - a.warmup) = k
          BY <2>2, <4>3
        <5>. HIDE DEF total
        <5>. QED BY <3>1, <5>1
      <4>. HIDE DEF all, v, w, total
      <4>. QED BY <4>1, <4>2, <4>3
    <3>5. total * BATCH_SIZE <= Len(Order)
      BY <2>2, <2>5 DEF Accepts, Fits, Needed
    <3>. DEFINE U == UNION {{all[k][n] : n \in 1 .. BATCH_SIZE} : k \in 1 .. Len(all)}
                T == {Order[m] : m \in 1 .. total * BATCH_SIZE}
    <3>. HIDE DEF all, total
    <3>6. \A k \in 1 .. total :
            /\ Len(all[k]) = BATCH_SIZE
            /\ \A n \in 1 .. BATCH_SIZE :
                 /\ all[k][n] = Order[(k - 1) * BATCH_SIZE + n]
                 /\ (k - 1) * BATCH_SIZE + n \in 1 .. total * BATCH_SIZE
      <4>1. ASSUME NEW k \in 1 .. total
            PROVE  /\ all[k] = BatchNo(k) /\ Len(BatchNo(k)) = BATCH_SIZE
                   /\ \A n \in 1 .. BATCH_SIZE :
                        /\ BatchNo(k)[n] = Order[(k - 1) * BATCH_SIZE + n]
                        /\ (k - 1) * BATCH_SIZE + n \in 1 .. total * BATCH_SIZE
        BY <3>0, <3>4, <3>5, BatchIsWhole
      <4>. QED BY <4>1
    <3>7. U \subseteq T
      <4>. SUFFICES ASSUME NEW k \in 1 .. total, NEW n \in 1 .. BATCH_SIZE PROVE all[k][n] \in T
        BY <3>4
      <4>. DEFINE m == (k - 1) * BATCH_SIZE + n
      <4>1. all[k][n] = Order[m] /\ m \in 1 .. total * BATCH_SIZE
        BY <3>6
      <4>. HIDE DEF m
      <4>. QED BY <4>1
    <3>8. T \subseteq U
      <4>. SUFFICES ASSUME NEW m \in 1 .. total * BATCH_SIZE PROVE Order[m] \in U
        OBVIOUS
      <4>. DEFINE x == m - 1
                  q == x \div BATCH_SIZE
                  c == x % BATCH_SIZE
                  k == q + 1
                  n == c + 1
      <4>1. x \in Nat /\ x < total * BATCH_SIZE /\ x + 1 = m
        BY <3>0, Product
      <4>2. q \in 0 .. total - 1 /\ c \in 0 .. BATCH_SIZE - 1 /\ q * BATCH_SIZE + c = x
        <5>. HIDE DEF x
        <5>. QED BY <3>0, <4>1, BatchOfSample
      <4>. HIDE DEF q, c
      <4>3. k \in 1 .. total /\ n \in 1 .. BATCH_SIZE /\ k - 1 = q
        BY <3>0, <4>2
      <4>4. (k - 1) * BATCH_SIZE + n = m
        <5>1. q * BATCH_SIZE \in Int
          BY <3>0, <4>2, Distributes
        <5>. QED BY <4>1, <4>2, <4>3, <5>1
      <4>. HIDE DEF k, n
      <4>5. all[k][n] = Order[m]
        BY <3>6, <4>3, <4>4
      <4>. QED BY <3>4, <4>3, <4>5
    <3>9. Cardinality(U) = total * BATCH_SIZE
      <4>1. U = T
        BY <3>7, <3>8
      <4>2. total * BATCH_SIZE \in Nat
        BY <3>0, Product
      <4>. QED BY <3>5, <4>1, <4>2, SamplesDiffer
    <3>10. total * BATCH_SIZE = BATCH_SIZE * total
      BY <3>0
    <3>11. r.workload = "resnet_train" /\ Len(r.did.work) = r.inner_iters
      BY <2>2, <2>5, <3>3
    <3>. QED BY <3>4, <3>6, <3>9, <3>10, <3>11 DEF all
  <2>. QED BY <2>2, <2>3, <2>4, <2>5 DEF Benchmarks
<1>. QED BY <1>1, WorkloadInvariant, PTL

----------------------------------------------------------------------------
(* A sequence of n tokens that occurs at two places.                       *)
Twice(t, n) ==
  \E p, q \in 1 .. Len(t) - n + 1 : p # q /\ \A k \in 0 .. n - 1 : t[p + k] = t[q + k]

LEMMA PieceOf ==
  ASSUME NEW S, NEW t \in Seq(S), NEW n \in 0 .. Len(t), NEW i \in 1 .. Len(t) - n + 1
  PROVE  /\ SubSeq(t, i, i + n - 1) \in Seq(S) /\ Len(SubSeq(t, i, i + n - 1)) = n
         /\ \A k \in 1 .. n : SubSeq(t, i, i + n - 1)[k] = t[i + k - 1]
<1>. DEFINE q == i + n - 1
<1>1. Len(t) \in Nat /\ \A k \in 1 .. Len(t) : t[k] \in S
  BY ElementOfSeq, LenProperties
<1>2. n \in Nat /\ i \in Int /\ q \in Int /\ q <= Len(t) /\ i >= 1
  BY <1>1
<1>3. \A k \in i .. q : t[k] \in S
  BY <1>1, <1>2
<1>. HIDE DEF q
<1>4. /\ SubSeq(t, i, q) \in Seq(S) /\ Len(SubSeq(t, i, q)) = (IF i <= q THEN q - i + 1 ELSE 0)
      /\ \A k \in 1 .. q - i + 1 : SubSeq(t, i, q)[k] = t[i + k - 1]
  BY <1>2, <1>3, SubSeqProperties
<1>5. q - i + 1 = n /\ (IF i <= q THEN q - i + 1 ELSE 0) = n
  BY <1>2 DEF q
<1>. QED BY <1>4, <1>5 DEF q

LEMMA RepeatIsTwice ==
  ASSUME NEW S, NEW t \in Seq(S), NEW n \in 0 .. Len(t)
  PROVE  HasRepeat(t, n) <=> Twice(t, n)
<1>. DEFINE P == 1 .. Len(t) - n + 1
            At(i) == SubSeq(t, i, i + n - 1)
            Same(i, j) == \A k \in 0 .. n - 1 : t[i + k] = t[j + k]
<1>1. Len(t) \in Nat /\ n \in Nat /\ P \subseteq Nat
  BY LenProperties
<1>2. ASSUME NEW i \in P, NEW j \in P PROVE At(i) = At(j) <=> Same(i, j)
  <2>1. /\ IsSeq(At(i)) /\ Len(At(i)) = n /\ \A k \in 1 .. n : At(i)[k] = t[i + k - 1]
        /\ IsSeq(At(j)) /\ Len(At(j)) = n /\ \A k \in 1 .. n : At(j)[k] = t[j + k - 1]
    BY PieceOf, SeqIsSeq
  <2>. HIDE DEF At
  <2>2. At(i) = At(j) <=> \A k \in 1 .. n : At(i)[k] = At(j)[k]
    BY <2>1, SameSeq
  <2>3. (\A k \in 1 .. n : At(i)[k] = At(j)[k]) <=> \A k \in 1 .. n : t[i + k - 1] = t[j + k - 1]
    BY <2>1
  <2>4. (\A k \in 1 .. n : t[i + k - 1] = t[j + k - 1]) <=> Same(i, j)
    <3>1. ASSUME \A k \in 1 .. n : t[i + k - 1] = t[j + k - 1], NEW k \in 0 .. n - 1
          PROVE  t[i + k] = t[j + k]
      <4>1. k + 1 \in 1 .. n /\ i + (k + 1) - 1 = i + k /\ j + (k + 1) - 1 = j + k
        BY <1>1
      <4>. QED BY <3>1, <4>1
    <3>2. ASSUME Same(i, j), NEW k \in 1 .. n PROVE t[i + k - 1] = t[j + k - 1]
      <4>1. k - 1 \in 0 .. n - 1 /\ i + (k - 1) = i + k - 1 /\ j + (k - 1) = j + k - 1
        BY <1>1
      <4>2. t[i + (k - 1)] = t[j + (k - 1)]
        BY <3>2, <4>1
      <4>. QED BY <4>1, <4>2
    <3>. QED BY <3>1, <3>2
  <2>. QED BY <2>2, <2>3, <2>4
<1>3. HasRepeat(t, n) <=> \E i, j \in P : i < j /\ At(i) = At(j)
  BY DEF HasRepeat
<1>4. Twice(t, n) <=> \E i, j \in P : i # j /\ Same(i, j)
  BY DEF Twice
<1>5. \A i, j \in P : Same(i, j) <=> Same(j, i)
  OBVIOUS
<1>. HIDE DEF P, At, Same
<1>6. \A i, j \in P : i # j => i < j \/ j < i
  BY <1>1
<1>7. \A i, j \in P : i < j => i # j
  BY <1>1
<1>. QED BY <1>2, <1>3, <1>4, <1>5, <1>6, <1>7

(* There is a longest one, and any shorter length occurs twice as well.    *)
LEMMA LongestExists ==
  ASSUME NEW t, Len(t) \in Nat, Len(t) >= 1
  PROVE  \E longest \in 0 .. Len(t) - 1 :
           \A n \in 0 .. Len(t) - 1 : Twice(t, n) <=> n <= longest
<1>. DEFINE top == Len(t) - 1
            T == {d \in 0 .. top : Twice(t, top - d)}
<1>1. top \in Nat
  OBVIOUS
<1>2. Twice(t, 0)
  <2>1. 1 \in 1 .. Len(t) - 0 + 1 /\ 2 \in 1 .. Len(t) - 0 + 1 /\ 1 # 2
    OBVIOUS
  <2>2. \A k \in 0 .. 0 - 1 : t[1 + k] = t[2 + k]
    OBVIOUS
  <2>. QED BY <2>1, <2>2 DEF Twice
<1>3. top \in T
  <2>1. top \in 0 .. top /\ top - top = 0
    BY <1>1
  <2>. HIDE DEF top
  <2>. QED BY <1>2, <2>1
<1>4. T \subseteq Nat
  OBVIOUS
<1>5. PICK d \in T : \A e \in T : d <= e
  <2>. HIDE DEF T
  <2>. QED BY <1>3, <1>4, LeastNatural
<1>6. d \in 0 .. top /\ Twice(t, top - d)
  BY <1>5
<1>7. ASSUME NEW n \in 0 .. top, n <= top - d PROVE Twice(t, n)
  <2>1. PICK p \in 1 .. Len(t) - (top - d) + 1, q \in 1 .. Len(t) - (top - d) + 1 :
          p # q /\ \A k \in 0 .. (top - d) - 1 : t[p + k] = t[q + k]
    BY <1>6 DEF Twice
  <2>2. p \in 1 .. Len(t) - n + 1 /\ q \in 1 .. Len(t) - n + 1
    BY <1>6, <1>7
  <2>3. \A k \in 0 .. n - 1 : k \in 0 .. (top - d) - 1
    BY <1>6, <1>7
  <2>. QED BY <2>1, <2>2, <2>3 DEF Twice
<1>8. ASSUME NEW n \in 0 .. top, Twice(t, n) PROVE n <= top - d
  <2>1. top - n \in 0 .. top /\ top - (top - n) = n
    BY <1>1
  <2>2. top - n \in T
    BY <1>8, <2>1
  <2>3. d <= top - n
    BY <1>5, <2>2
  <2>. QED BY <1>1, <1>6, <1>8, <2>3
<1>9. top - d \in 0 .. top
  BY <1>6
<1>. QED BY <1>7, <1>8, <1>9

(* What the search gives for a range, from what it gives for others.       *)
Halved(t, f, r) ==
  LET low  == r[1]
      high == r[2]
      mid  == (low + high + 1) \div 2
  IN  IF low >= high THEN low
      ELSE f[IF HasRepeat(t, mid) THEN <<mid, high>> ELSE <<low, mid - 1>>]

Ranges(top) == (0 .. top) \X (-1 .. top)

Searches(t, f, top) == f = [r \in Ranges(top) |-> Halved(t, f, r)]

LEMMA Middle ==
  ASSUME NEW low \in Nat, NEW high \in Int, low < high
  PROVE  LET mid == (low + high + 1) \div 2
         IN  mid \in low + 1 .. high
OBVIOUS

(* The search has an answer for every range: the longest, or the end of    *)
(* the range that is nearest to it.                                        *)
LEMMA SearchIsDefined ==
  ASSUME NEW t, NEW top \in Nat, NEW longest \in 0 .. top,
         \A n \in 0 .. top : HasRepeat(t, n) <=> n <= longest
  PROVE  \E f : Searches(t, f, top)
<1>. DEFINE near(low, high) ==
              IF low >= high \/ longest <= low THEN low ELSE IF longest >= high THEN high ELSE longest
            f == [r \in Ranges(top) |-> near(r[1], r[2])]
<1>1. ASSUME NEW r \in Ranges(top) PROVE near(r[1], r[2]) = Halved(t, f, r)
  <2>. DEFINE low == r[1]
              high == r[2]
              mid == (low + high + 1) \div 2
  <2>1. low \in 0 .. top /\ high \in -1 .. top
    BY DEF Ranges
  <2>2. CASE low >= high
    BY <2>2 DEF Halved
  <2>3. CASE low < high
    <3>1. mid \in low + 1 .. high
      BY <2>1, <2>3, Middle
    <3>. HIDE DEF mid
    <3>2. mid \in 0 .. top /\ mid - 1 \in -1 .. top /\ mid - 1 \in 0 .. top
      BY <2>1, <3>1
    <3>3. CASE HasRepeat(t, mid)
      <4>1. Halved(t, f, r) = f[<<mid, high>>]
        BY <2>1, <2>3, <3>3 DEF Halved, mid
      <4>2. f[<<mid, high>>] = near(mid, high)
        BY <2>1, <3>2 DEF Ranges
      <4>3. mid <= longest
        BY <3>2, <3>3
      <4>. HIDE DEF f, low, high
      <4>4. near(low, high) = near(mid, high)
        BY <2>1, <2>3, <3>1, <4>3
      <4>. QED BY <4>1, <4>2, <4>4 DEF low, high
    <3>4. CASE ~HasRepeat(t, mid)
      <4>1. Halved(t, f, r) = f[<<low, mid - 1>>]
        BY <2>1, <2>3, <3>4 DEF Halved, mid
      <4>2. f[<<low, mid - 1>>] = near(low, mid - 1)
        BY <2>1, <3>2 DEF Ranges
      <4>3. ~(mid <= longest)
        BY <3>2, <3>4
      <4>. HIDE DEF f, low, high
      <4>4. near(low, high) = near(low, mid - 1)
        BY <2>1, <2>3, <3>1, <4>3
      <4>. QED BY <4>1, <4>2, <4>4 DEF low, high
    <3>. QED BY <3>3, <3>4
  <2>. QED BY <2>1, <2>2, <2>3
<1>. HIDE DEF near
<1>2. f = [r \in Ranges(top) |-> Halved(t, f, r)]
  <2>1. [r \in Ranges(top) |-> near(r[1], r[2])] = [r \in Ranges(top) |-> Halved(t, f, r)]
    <3>. HIDE DEF f
    <3>. QED BY <1>1
  <2>. QED BY <2>1
<1>3. Searches(t, f, top)
  <2>. HIDE DEF f
  <2>. QED BY <1>2 DEF Searches
<1>. QED BY <1>3

(* A range that has the longest in it keeps it until it has nothing else.  *)
LEMMA SearchFinds ==
  ASSUME NEW t, NEW top \in Nat, NEW longest \in 0 .. top,
         \A n \in 0 .. top : HasRepeat(t, n) <=> n <= longest,
         NEW f, Searches(t, f, top)
  PROVE  f[<<0, top>>] = longest
<1>. DEFINE T == {d \in 0 .. top : \A low, high \in 0 .. top :
                    low <= longest /\ longest <= high /\ high - low <= d => f[<<low, high>>] = longest}
<1>1. ASSUME NEW low \in 0 .. top, NEW high \in 0 .. top
      PROVE  f[<<low, high>>] = Halved(t, f, <<low, high>>)
  BY DEF Searches, Ranges
<1>2. 0 \in T
  <2>1. SUFFICES ASSUME NEW low \in 0 .. top, NEW high \in 0 .. top,
                        low <= longest, longest <= high, high - low <= 0
                 PROVE  f[<<low, high>>] = longest
    OBVIOUS
  <2>2. Halved(t, f, <<low, high>>) = low
    BY <2>1 DEF Halved
  <2>. QED BY <1>1, <2>1, <2>2
<1>3. ASSUME NEW d \in 0 .. top - 1, d \in T PROVE d + 1 \in T
  <2>1. SUFFICES ASSUME NEW low \in 0 .. top, NEW high \in 0 .. top,
                        low <= longest, longest <= high, high - low <= d + 1
                 PROVE  f[<<low, high>>] = longest
    OBVIOUS
  <2>2. CASE low >= high
    <3>1. Halved(t, f, <<low, high>>) = low
      BY <2>2 DEF Halved
    <3>. QED BY <1>1, <2>1, <2>2, <3>1
  <2>3. CASE low < high
    <3>. DEFINE mid == (low + high + 1) \div 2
    <3>1. mid \in low + 1 .. high
      BY <2>3, Middle
    <3>2. f[<<low, high>>] = f[IF HasRepeat(t, mid) THEN <<mid, high>> ELSE <<low, mid - 1>>]
      BY <1>1, <2>3 DEF Halved
    <3>. HIDE DEF mid
    <3>3. CASE HasRepeat(t, mid)
      <4>1. mid \in 0 .. top /\ mid <= longest /\ high - mid <= d
        BY <2>1, <3>1, <3>3
      <4>2. f[<<mid, high>>] = longest
        BY <1>3, <2>1, <4>1
      <4>. QED BY <3>2, <3>3, <4>2
    <3>4. CASE ~HasRepeat(t, mid)
      <4>1. mid - 1 \in 0 .. top /\ longest <= mid - 1 /\ (mid - 1) - low <= d
        BY <2>1, <3>1, <3>4
      <4>2. f[<<low, mid - 1>>] = longest
        BY <1>3, <2>1, <4>1
      <4>. QED BY <3>2, <3>4, <4>2
    <3>. QED BY <3>3, <3>4
  <2>. QED BY <2>2, <2>3
<1>. HIDE DEF T
<1>4. \A d \in 0 .. top : d \in T
  BY <1>2, <1>3, UpTo
<1>5. top \in T /\ 0 \in 0 .. top /\ top \in 0 .. top
  BY <1>4
<1>. QED BY <1>5 DEF T

LEMMA LongestRepeatMeans ==
  ASSUME NEW S, NEW t \in Seq(S), Len(t) >= 1
  PROVE  LET repeats == {n \in 0 .. Len(t) - 1 : Twice(t, n)}
         IN  LongestRepeat(t) = CHOOSE n \in repeats : \A m \in repeats : m <= n
<1>. DEFINE top == Len(t) - 1
            repeats == {n \in 0 .. top : Twice(t, n)}
<1>1. Len(t) \in Nat /\ top \in Nat
  BY LenProperties
<1>2. PICK longest \in 0 .. top : \A n \in 0 .. top : Twice(t, n) <=> n <= longest
  BY <1>1, LongestExists
<1>3. (CHOOSE n \in repeats : \A m \in repeats : m <= n) = longest
  <2>1. repeats = 0 .. longest
    BY <1>1, <1>2
  <2>. HIDE DEF repeats
  <2>2. \A n \in repeats : (\A m \in repeats : m <= n) <=> n = longest
    BY <1>1, <1>2, <2>1
  <2>3. longest \in repeats
    BY <1>1, <1>2, <2>1
  <2>. QED BY <2>2, <2>3
<1>4. LongestRepeat(t) = longest
  <2>1. CASE Len(t) < 2
    <3>1. LongestRepeat(t) = 0
      BY <2>1 DEF LongestRepeat
    <3>2. longest = 0
      BY <1>1, <1>2, <2>1
    <3>. QED BY <3>1, <3>2
  <2>2. CASE Len(t) >= 2
    <3>. DEFINE f == CHOOSE f : Searches(t, f, top)
    <3>1. LongestRepeat(t) = f[<<0, top>>]
      BY <1>1, <2>2 DEF LongestRepeat, Searches, Halved, Ranges
    <3>2. \A n \in 0 .. top : HasRepeat(t, n) <=> n <= longest
      BY <1>1, <1>2, RepeatIsTwice
    <3>3. \E g : Searches(t, g, top)
      <4>. HIDE DEF top
      <4>. QED BY <1>1, <1>2, <3>2, SearchIsDefined
    <3>4. Searches(t, f, top)
      <4>. HIDE DEF Searches
      <4>. QED BY <3>3
    <3>. HIDE DEF f, top
    <3>5. f[<<0, top>>] = longest
      BY <1>1, <1>2, <3>2, <3>4, SearchFinds
    <3>. QED BY <3>1, <3>5
  <2>. QED BY <1>1, <2>1, <2>2
<1>. QED BY <1>3, <1>4

(* _longest_repeated_ngram: its search by halves ends at the length of the *)
(* longest piece that the recorded tokens hold twice.                      *)
THEOREM LongestIsExact == Spec => []LongestRepeatIsExact
<1>1. IInv => LongestRepeatIsExact
  <2>. SUFFICES ASSUME IInv, NEW i \in 1 .. Len(rows), rows[i].workload = "llm_inference"
                PROVE  LET t == rows[i].did.work[rows[i].inner_iters][1]
                           repeats == {n \in 0 .. Len(t) - 1 : Twice(t, n)}
                       IN  rows[i].longest = CHOOSE n \in repeats : \A m \in repeats : m <= n
    BY DEF LongestRepeatIsExact, Twice
  <2>. DEFINE r == rows[i]
  <2>1. PICK a \in Arguments : Matches(r, a)
    BY DEF IInv, RowInv
  <2>2. a.bench = "llm_inference" /\ r.inner_iters = a.units /\ OfTokens(r, a) /\ Accepts(a)
    BY <2>1 DEF Matches
  <2>3. a.batch \in Nat /\ a.batch >= 1 /\ a.size \in Nat /\ a.size >= 1
    BY <2>2, WorkloadAssumption DEF Accepts
  <2>. DEFINE t == r.did.work[a.units][1]
  <2>4. t \in [1 .. a.size -> Tokens] /\ r.longest = LongestRepeat(t)
    <3>. DEFINE last == r.did.work[a.units]
    <3>1. last \in [1 .. a.batch -> [1 .. a.size -> Tokens]] /\ r.longest = LongestRepeat(last[1])
      BY <2>2 DEF OfTokens
    <3>2. 1 \in 1 .. a.batch
      BY <2>3
    <3>. HIDE DEF last
    <3>3. last[1] \in [1 .. a.size -> Tokens]
      BY <3>1, <3>2
    <3>. QED BY <3>1, <3>3 DEF last
  <2>5. t \in Seq(Tokens) /\ Len(t) >= 1
    <3>. HIDE DEF t
    <3>. QED BY <2>3, <2>4, LenOfFunction
  <2>. HIDE DEF t
  <2>6. LET repeats == {n \in 0 .. Len(t) - 1 : Twice(t, n)}
        IN  LongestRepeat(t) = CHOOSE n \in repeats : \A m \in repeats : m <= n
    BY <2>5, LongestRepeatMeans
  <2>. QED BY <2>2, <2>4, <2>6 DEF t
<1>. QED BY <1>1, WorkloadInvariant, PTL

----------------------------------------------------------------------------
(* compare_llm_runs.py.                                                    *)

(* A record of llm_inference has the tokens of a whole batch.              *)
Shapes == [b : Nat \ {0}, n : Nat \ {0}]

Outputs(shape) == [1 .. shape.b -> [1 .. shape.n -> Tokens]]

(* Records of one configuration have outputs of one shape, and hash them   *)
(* alike exactly when they are the same.                                   *)
LEMMA OneConfig ==
  ASSUME IInv, NEW i \in Records, NEW j \in Records, rows[i].config_id = rows[j].config_id
  PROVE  /\ \E shape \in Shapes : LastOutput(i) \in Outputs(shape) /\ LastOutput(j) \in Outputs(shape)
         /\ rows[i].work_hash = rows[j].work_hash <=> LastOutput(i) = LastOutput(j)
<1>. DEFINE r == rows[i]
            s == rows[j]
<1>0. /\ i \in 1 .. Len(rows) /\ r.workload = "llm_inference"
      /\ j \in 1 .. Len(rows) /\ s.workload = "llm_inference"
  BY DEF Records
<1>1. PICK a \in Arguments : Matches(r, a)
  BY <1>0 DEF IInv, RowInv
<1>2. PICK c \in Arguments : Matches(s, c)
  BY <1>0 DEF IInv, RowInv
<1>3. a.bench = "llm_inference" /\ OfTokens(r, a) /\ Accepts(a) /\ OfTokens(s, c)
  BY <1>0, <1>1, <1>2 DEF Matches
<1>4. a.batch = c.batch /\ a.size = c.size /\ a.units = c.units
  <2>1. <<"b", a.batch, "n", a.size, "i", a.units>> = <<"b", c.batch, "n", c.size, "i", c.units>>
    BY <1>3 DEF OfTokens
  <2>. QED BY <2>1
<1>5. a.batch \in Nat \ {0} /\ a.size \in Nat \ {0}
  BY <1>3, WorkloadAssumption DEF Accepts
<1>. DEFINE b == a.batch
            n == a.size
            x == LastOutput(i)
            y == LastOutput(j)
            X(k) == x[((k - 1) \div n) + 1][((k - 1) % n) + 1]
            Y(k) == y[((k - 1) \div n) + 1][((k - 1) % n) + 1]
<1>6. x = r.did.work[a.units] /\ y = s.did.work[a.units]
  BY <1>3, <1>4 DEF LastOutput, OfTokens
<1>7. x \in [1 .. b -> [1 .. n -> Tokens]] /\ y \in [1 .. b -> [1 .. n -> Tokens]]
  <2>1. r.did.work[a.units] \in [1 .. b -> [1 .. n -> Tokens]]
    BY <1>3 DEF OfTokens
  <2>2. s.did.work[a.units] \in [1 .. b -> [1 .. n -> Tokens]]
    BY <1>3, <1>4 DEF OfTokens
  <2>. QED BY <1>6, <2>1, <2>2
<1>8. \E shape \in Shapes : x \in Outputs(shape) /\ y \in Outputs(shape)
  <2>1. [b |-> b, n |-> n] \in Shapes
    BY <1>5 DEF Shapes
  <2>. HIDE DEF x, y
  <2>. QED BY <1>7, <2>1 DEF Outputs
<1>9. r.work_hash = [k \in 1 .. b * n |-> X(k)] /\ s.work_hash = [k \in 1 .. b * n |-> Y(k)]
  <2>. DEFINE u == r.did.work[a.units]
              v == s.did.work[a.units]
  <2>1. r.work_hash = [k \in 1 .. b * n |-> u[((k - 1) \div n) + 1][((k - 1) % n) + 1]]
    BY <1>3 DEF OfTokens
  <2>2. s.work_hash = [k \in 1 .. b * n |-> v[((k - 1) \div n) + 1][((k - 1) % n) + 1]]
    <3>. DEFINE F(p, q, w) == [k \in 1 .. p * q |-> w[((k - 1) \div q) + 1][((k - 1) % q) + 1]]
    <3>1. s.work_hash = F(c.batch, c.size, s.did.work[c.units])
      BY <1>3 DEF OfTokens
    <3>. HIDE DEF F
    <3>2. s.work_hash = F(b, n, v)
      BY <1>4, <3>1
    <3>. QED BY <3>2 DEF F
  <2>3. x = u /\ y = v
    BY <1>6
  <2>. HIDE DEF u, v, x, y, b, n
  <2>. QED BY <2>1, <2>2, <2>3
<1>10. ASSUME r.work_hash = s.work_hash PROVE x = y
  <2>1. \A k \in 1 .. b * n : X(k) = Y(k)
    <3>. DEFINE F == [k \in 1 .. b * n |-> X(k)]
                G == [k \in 1 .. b * n |-> Y(k)]
    <3>1. F = G
      BY <1>9, <1>10
    <3>. HIDE DEF X, Y
    <3>2. \A k \in 1 .. b * n : F[k] = X(k) /\ G[k] = Y(k)
      OBVIOUS
    <3>. HIDE DEF F, G
    <3>. QED BY <3>1, <3>2
  <2>. HIDE DEF x, y, b, n
  <2>. QED BY <1>5, <1>7, <2>1, HashIsTokens DEF b, n
<1>11. ASSUME x = y PROVE r.work_hash = s.work_hash
  <2>. HIDE DEF x, y
  <2>. QED BY <1>9, <1>11
<1>. QED BY <1>8, <1>10, <1>11

LEMMA Several ==
  ASSUME NEW S, IsFiniteSet(S)
  PROVE  Cardinality(S) > 1 <=> \E x, y \in S : x # y
<1>1. Cardinality(S) \in Nat /\ (Cardinality(S) = 0 <=> S = {})
  BY FS_CardinalityType, FS_EmptySet
<1>2. Cardinality(S) = 1 <=> \E x : S = {x}
  BY FS_Singleton
<1>3. (\E x, y \in S : x # y) <=> S # {} /\ ~\E x : S = {x}
  OBVIOUS
<1>. QED BY <1>1, <1>2, <1>3

(* The verdict on a group: two of its records ended in different tokens.   *)
LEMMA MisMatchMeans ==
  ASSUME IInv, NEW i \in Records
  PROVE  /\ i \in by_config(i) /\ by_config(i) \subseteq Records /\ by_config(i) \subseteq Nat
         /\ MisMatch(i) <=> \E j, k \in by_config(i) : LastOutput(j) # LastOutput(k)
<1>. DEFINE G == by_config(i)
            hash == [j \in Records |-> rows[j].work_hash]
            H == {rows[j].work_hash : j \in G}
<1>1. i \in G /\ G \subseteq Records /\ G \subseteq 1 .. Len(rows) /\ Len(rows) \in Nat
      /\ \A j, k \in G : rows[j].config_id = rows[k].config_id
  BY DEF by_config, Records, IInv, PlaceInv, IsSeq
<1>2. IsFiniteSet(H)
  <2>1. IsFiniteSet(G)
    <3>1. IsFiniteSet(1 .. Len(rows)) /\ G \in SUBSET (1 .. Len(rows))
      BY <1>1, FS_Interval
    <3>. HIDE DEF G
    <3>. QED BY <3>1, FS_Subset
  <2>. HIDE DEF G
  <2>2. H = {hash[j] : j \in G}
    BY <1>1
  <2>. HIDE DEF H, hash
  <2>. QED BY <2>1, <2>2, ImageIsFinite
<1>. HIDE DEF G
<1>3. (\E x, y \in H : x # y) <=> \E j, k \in G : rows[j].work_hash # rows[k].work_hash
  OBVIOUS
<1>4. \A j, k \in G : rows[j].work_hash = rows[k].work_hash <=> LastOutput(j) = LastOutput(k)
  BY <1>1, OneConfig
<1>5. MisMatch(i) <=> Cardinality(H) > 1
  BY DEF MisMatch, G
<1>. HIDE DEF H
<1>6. Cardinality(H) > 1 <=> \E x, y \in H : x # y
  BY <1>2, Several
<1>. QED BY <1>1, <1>3, <1>4, <1>5, <1>6 DEF G

(* Where two rows of tokens of one length first differ.                    *)
LEMMA DivergenceMeans ==
  ASSUME NEW n \in Nat \ {0}, NEW x \in [1 .. n -> Tokens], NEW y \in [1 .. n -> Tokens]
  PROVE  LET d == divergence_index(x, y)
         IN  /\ d \in Nat \cup {None}
             /\ d # None => /\ \A k \in 1 .. d : x[k] = y[k]
                            /\ x[d + 1] # y[d + 1]
             /\ d = None => x = y
<1>. DEFINE differ == {k \in 1 .. n : x[k] # y[k]}
<1>1. Len(x) = n /\ Len(y) = n
  BY LenOfFunction
<1>2. Min({Len(x), Len(y)}) = n
  <2>1. {Len(x), Len(y)} \subseteq Nat /\ {Len(x), Len(y)} # {} /\ {Len(x), Len(y)} = {n}
    BY <1>1
  <2>2. Min({Len(x), Len(y)}) \in {n}
    BY <2>1, MinIsLeast
  <2>. QED BY <2>2
<1>3. divergence_index(x, y) = IF differ # {} THEN Min(differ) - 1 ELSE None
  BY <1>1, <1>2 DEF divergence_index
<1>4. CASE differ = {}
  BY <1>3, <1>4 DEF None
<1>5. CASE differ # {}
  <2>. DEFINE m == Min(differ)
  <2>1. m \in differ /\ \A k \in differ : m <= k
    <3>1. differ \subseteq Nat
      OBVIOUS
    <3>. HIDE DEF differ
    <3>. QED BY <1>5, <3>1, MinIsLeast
  <2>. HIDE DEF m
  <2>2. m \in 1 .. n /\ x[m] # y[m] /\ \A k \in 1 .. m - 1 : x[k] = y[k]
    BY <2>1
  <2>3. divergence_index(x, y) = m - 1 /\ m - 1 \in Nat /\ m - 1 # None /\ (m - 1) + 1 = m
    BY <1>3, <1>5, <2>2 DEF m, None
  <2>. QED BY <2>2, <2>3
<1>. QED BY <1>4, <1>5

LEMMA TokensAreThere ==
  ASSUME NEW i, NEW with, NEW shape \in Shapes, LastOutput(i) \in Outputs(shape)
  PROVE  /\ load_tokens(i, with) = IF i \in with THEN LastOutput(i)[1] ELSE <<>>
         /\ LastOutput(i)[1] \in [1 .. shape.n -> Tokens] /\ LastOutput(i)[1] # <<>>
<1>. DEFINE x == LastOutput(i)
            n == shape.n
<1>1. shape.b \in Nat \ {0} /\ n \in Nat \ {0}
  BY DEF Shapes
<1>2. x[1] \in [1 .. n -> Tokens]
  BY <1>1 DEF Outputs
<1>3. x[1] # <<>>
  <2>1. Len(x[1]) = n
    <3>. HIDE DEF x, n
    <3>. QED BY <1>1, <1>2, LenOfFunction
  <2>. QED BY <1>1, <2>1, EmptyIsSeq
<1>4. load_tokens(i, with) = IF i \in with THEN x[1] ELSE <<>>
  BY DEF load_tokens, TokenIds
<1>. QED BY <1>2, <1>3, <1>4

(* compare_llm_runs: the verdict and the index it prints are those of the  *)
(* tokens the runs generated.                                              *)
THEOREM ComparisonHolds == Spec => []ComparisonIsTrue
<1>1. ASSUME IInv, Records # {}
      PROVE  exit_code = 1 <=>
               \E i, j \in Records :
                 rows[i].config_id = rows[j].config_id /\ LastOutput(i) # LastOutput(j)
  <2>1. exit_code = 1 <=> \E i \in Records : MisMatch(i)
    BY <1>1 DEF exit_code
  <2>2. ASSUME NEW i \in Records, MisMatch(i)
        PROVE  \E j, k \in Records :
                 rows[j].config_id = rows[k].config_id /\ LastOutput(j) # LastOutput(k)
    <3>1. PICK j \in by_config(i), k \in by_config(i) : LastOutput(j) # LastOutput(k)
      BY <1>1, <2>2, MisMatchMeans
    <3>. QED BY <3>1 DEF by_config
  <2>3. ASSUME NEW i \in Records, NEW j \in Records,
               rows[i].config_id = rows[j].config_id, LastOutput(i) # LastOutput(j)
        PROVE  MisMatch(i)
    <3>1. i \in by_config(i) /\ j \in by_config(i)
      BY <2>3 DEF by_config
    <3>. QED BY <1>1, <2>3, <3>1, MisMatchMeans
  <2>. QED BY <2>1, <2>2, <2>3
<1>2. ASSUME IInv, NEW with, NEW j \in Records, NEW base, base = Min(by_config(j)),
             rows[j].work_hash # rows[base].work_hash
      PROVE  LET left  == LastOutput(base)
                 right == LastOutput(j)
                 index == Located(j, with) IN
             /\ index = Missing <=> ~({base, j} \subseteq with)
             /\ index >= 0 => /\ \A k \in 1 .. index : left[1][k] = right[1][k]
                              /\ left[1][index + 1] # right[1][index + 1]
             /\ index = None => left[1] = right[1] /\ \E r \in DOMAIN left : left[r] # right[r]
  <2>. DEFINE left  == LastOutput(base)
              right == LastOutput(j)
              index == Located(j, with)
  <2>1. base \in by_config(j) /\ base \in Records /\ rows[base].config_id = rows[j].config_id
    <3>1. base \in by_config(j)
      BY <1>2, MisMatchMeans, MinIsLeast
    <3>. QED BY <3>1 DEF by_config
  <2>2. PICK shape \in Shapes : left \in Outputs(shape) /\ right \in Outputs(shape)
    BY <1>2, <2>1, OneConfig
  <2>3. left # right
    BY <1>2, <2>1, OneConfig
  <2>4. /\ load_tokens(base, with) = IF base \in with THEN left[1] ELSE <<>>
        /\ left[1] \in [1 .. shape.n -> Tokens] /\ left[1] # <<>>
    BY <2>2, TokensAreThere
  <2>5. /\ load_tokens(j, with) = IF j \in with THEN right[1] ELSE <<>>
        /\ right[1] \in [1 .. shape.n -> Tokens] /\ right[1] # <<>>
    BY <2>2, TokensAreThere
  <2>6. index = IF {base, j} \subseteq with THEN divergence_index(left[1], right[1]) ELSE Missing
    BY <1>2, <2>4, <2>5 DEF Located
  <2>7. shape.n \in Nat \ {0}
    BY DEF Shapes
  <2>8. \E r \in DOMAIN left : left[r] # right[r]
    <3>. DEFINE S == [1 .. shape.n -> Tokens]
                B == 1 .. shape.b
    <3>1. left \in [B -> S] /\ right \in [B -> S]
      BY <2>2 DEF Outputs
    <3>. HIDE DEF left, right, S, B
    <3>2. DOMAIN left = B
      BY <3>1
    <3>3. (\A r \in B : left[r] = right[r]) => left = right
      BY <3>1
    <3>. QED BY <2>3, <3>2, <3>3
  <2>. DEFINE d == divergence_index(left[1], right[1])
  <2>9. /\ d \in Nat \cup {None}
        /\ d # None => (\A k \in 1 .. d : left[1][k] = right[1][k]) /\ left[1][d + 1] # right[1][d + 1]
        /\ d = None => left[1] = right[1]
    <3>. HIDE DEF left, right
    <3>. QED BY <2>4, <2>5, <2>7, DivergenceMeans
  <2>. HIDE DEF left, right, index, d
  <2>10. CASE {base, j} \subseteq with
    <3>1. index = d /\ d # Missing
      BY <2>6, <2>9, <2>10 DEF d, None, Missing
    <3>2. index >= 0 => d # None
      BY <3>1, <2>9 DEF None
    <3>. QED BY <2>8, <2>9, <2>10, <3>1, <3>2 DEF left, right, index
  <2>11. CASE ~({base, j} \subseteq with)
    <3>1. index = Missing
      BY <2>6, <2>11
    <3>2. ~(index >= 0) /\ index # None
      BY <3>1 DEF Missing, None
    <3>. QED BY <2>11, <3>1, <3>2 DEF left, right, index
  <2>. QED BY <2>10, <2>11
<1>3. IInv => ComparisonIsTrue
  <2>. SUFFICES ASSUME IInv, Records # {} PROVE ComparisonIsTrue
    BY DEF ComparisonIsTrue
  <2>. QED BY <1>1, <1>2 DEF ComparisonIsTrue
<1>. QED BY <1>3, WorkloadInvariant, PTL
=============================================================================
