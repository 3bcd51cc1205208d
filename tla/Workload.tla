------------------------------ MODULE Workload ------------------------------
(***************************************************************************)
(* benchmarks/: what the three workloads do, and what their records say of *)
(* it.  A process runs one workload with one set of arguments, repetition  *)
(* after repetition; each repetition warms up, does a fixed number of      *)
(* units of work in the timed region, and leaves a WorkloadResult.         *)
(*                                                                         *)
(* A unit is a batch of samples trained on (resnet_train), the token rows  *)
(* of one generate() (llm_inference), or a multiplication (matmul).  A     *)
(* hash is identified with what is hashed, a config_id with its parts; the *)
(* precision and the seeds are the same in every run and left out of both. *)
(***************************************************************************)
EXTENDS Integers, Sequences, FiniteSets

CONSTANTS
  Arguments,   (* the arguments the workloads are called with               *)
  Order,       (* the dataset in the order of the seeded permutation        *)
  BATCH_SIZE,
  Tokens,      (* the vocabulary                                            *)
  Entropy,     (* what torch's generator may hold when a process starts     *)
  SEED,
  MaxLaunch,   (* processes, one after the other: bounds the model          *)
  MaxRow       (* rows they leave together: bounds the model                *)

Benchmarks == {"resnet_train", "llm_inference", "matmul"}

ASSUME WorkloadAssumption ==
  /\ Arguments \subseteq [bench : Benchmarks, units : Int, warmup : Int, size : Int, batch : Int]
  /\ Order \in Seq(Nat) /\ \A i, j \in 1 .. Len(Order) : Order[i] = Order[j] => i = j
  /\ BATCH_SIZE \in Nat \ {0}
  /\ SEED \notin Entropy
  /\ MaxLaunch \in Nat /\ MaxRow \in Nat

VARIABLES
  at,          (* where the process is                                      *)
  launch,      (* how many there have been                                  *)
  args,        (* its arguments                                             *)
  rng,         (* torch's default generator: its seed, and draws since      *)
  loader,      (* the samples data_iter has still to give                   *)
  init,        (* the generator state the model was initialised from        *)
  warm, work,  (* the units done before, and in, the timed region           *)
  failure,     (* why the last process that failed did                      *)
  rows         (* the records, and as history what each repetition did      *)

process == <<args, launch>>
locals  == <<loader, init, warm, work>>
vars == <<at, process, rng, locals, failure, rows>>

NoRng  == [seed |-> "none", draws |-> 0]
NoArgs == [bench |-> "none", units |-> 0, warmup |-> 0, size |-> 0, batch |-> 0]

Init ==
  /\ at = "none" /\ launch = 0 /\ args = NoArgs
  /\ rng = NoRng /\ loader = <<>> /\ init = NoRng
  /\ warm = <<>> /\ work = <<>>
  /\ failure = "none" /\ rows = <<>>

----------------------------------------------------------------------------
(* Before the region.                                                      *)

(* _plan_indices: the samples a run consumes, their number first.          *)
Needed(a) == (a.warmup + a.units) * BATCH_SIZE

InRange(a) == a.units >= 1 /\ a.warmup >= 0
Fits(a)    == Needed(a) <= Len(Order)
Planned(a) == SubSeq(Order, 1, Needed(a))

(* The argument checks at the top of each run().                           *)
Accepts(a) ==
  /\ InRange(a)
  /\ a.bench = "resnet_train" => Fits(a)
  /\ a.bench # "resnet_train" => a.size >= 1
  /\ a.bench = "llm_inference" => a.batch >= 1

(* run()'s local variables are gone once it has left.                      *)
Leave == loader' = <<>> /\ init' = NoRng /\ warm' = <<>> /\ work' = <<>>

(* An exception ends the process.                                          *)
Fail(reason) ==
  /\ at' = "none" /\ failure' = reason
  /\ Leave
  /\ UNCHANGED <<process, rng, rows>>

Launch(a) ==
  /\ at = "none" /\ launch < MaxLaunch /\ Len(rows) < MaxRow
  /\ at' = "call" /\ launch' = launch + 1 /\ args' = a
  /\ \E e \in Entropy : rng' = [seed |-> e, draws |-> 0]
  /\ UNCHANGED <<locals, failure, rows>>

Refuse ==
  /\ at = "call" /\ ~Accepts(args)
  /\ Fail("refused")

(* The dataset, the weights or the device are not there.                   *)
SetupRaises ==
  /\ at = "call" /\ Accepts(args)
  /\ Fail("setup")

(* Mutation: only a process's first repetition seeds the generator.        *)
SeededOnce == IF rng.seed \in Entropy THEN [seed |-> SEED, draws |-> 0] ELSE rng

(* torch.manual_seed, right before the model is built, whatever the data   *)
(* pipeline has drawn until then.                                          *)
Seeded == [seed |-> SEED, draws |-> 0]

(* run() up to its first warmup unit. resnet_train's model draws its       *)
(* weights from the generator, and then the data iterator its base seed;   *)
(* the inputs of matmul come from a generator of their own, those of       *)
(* llm_inference from the pinned revision.                                 *)
Setup ==
  /\ at = "call" /\ Accepts(args)
  /\ at' = "warm"
  /\ IF args.bench = "resnet_train"
     THEN /\ loader' = Planned(args)
          /\ init' = Seeded
          /\ rng' = [Seeded EXCEPT !.draws = @ + 2]
     ELSE UNCHANGED <<loader, init, rng>>
  /\ UNCHANGED <<process, warm, work, failure, rows>>

----------------------------------------------------------------------------
(* The warmup and the timed region.                                        *)

(* What generate() may return: rows of max_new_tokens tokens each, or of   *)
(* fewer if the pinned minimum were not obeyed. The same prompt and greedy *)
(* decoding promise the same rows each time; that is checked, not assumed. *)
Generated ==
  LET rowsOf(n) == [1 .. args.batch -> [1 .. n -> Tokens]]
  IN  rowsOf(args.size) \cup (IF args.size > 1 THEN rowsOf(args.size - 1) ELSE {})

(* The next batch: a short one, if the samples do not fill it.             *)
Batch == SubSeq(loader, 1, IF Len(loader) < BATCH_SIZE THEN Len(loader) ELSE BATCH_SIZE)

Multiply == <<args.size, args.size>>

(* The units that may be done next, and what doing one leaves to be taken. *)
Units ==
  CASE args.bench = "resnet_train"  -> {Batch} \ {<<>>}
    [] args.bench = "llm_inference" -> Generated
    [] args.bench = "matmul"        -> {Multiply}

Take ==
  loader' = IF args.bench = "resnet_train"
            THEN SubSeq(loader, Len(Batch) + 1, Len(loader)) ELSE loader

Warming == at = "warm" /\ Len(warm) < args.warmup

Working == at = "region" /\ Len(work) < args.units

(* The output of a warmup generate() is thrown away.                       *)
WarmUp ==
  /\ Warming
  /\ \E u \in Units :
       warm' = Append(warm, IF args.bench = "llm_inference" THEN <<>> ELSE u)
  /\ Take
  /\ UNCHANGED <<at, process, rng, init, work, failure, rows>>

EnterRegion ==
  /\ at = "warm" /\ Len(warm) >= args.warmup
  /\ at' = "region"
  /\ UNCHANGED <<process, rng, locals, failure, rows>>

WorkOn ==
  /\ Working
  /\ \E u \in Units : work' = Append(work, u)
  /\ Take
  /\ UNCHANGED <<at, process, rng, init, warm, failure, rows>>

(* next(data_iter) has nothing left to give.                               *)
Starved == args.bench = "resnet_train" /\ loader = <<>>

UnitRaises ==
  /\ Warming \/ Working
  /\ Fail(IF Starved THEN "starved" ELSE "device")

----------------------------------------------------------------------------
(* After the region: what is recorded.                                     *)

HasRepeat(t, n) ==
  \E i, j \in 1 .. Len(t) - n + 1 :
    i < j /\ SubSeq(t, i, i + n - 1) = SubSeq(t, j, j + n - 1)

(* Mutation: what it replaced, the longest run of one token.               *)
LongestRun(t) ==
  LET runs == {n \in 0 .. Len(t) :
                 \E i \in 0 .. Len(t) - n : \A j, k \in i + 1 .. i + n : t[j] = t[k]}
  IN  CHOOSE n \in runs : \A m \in runs : m <= n

(* _longest_repeated_ngram: a search by halves for the longest sequence of *)
(* tokens that occurs twice, possibly overlapping itself.                  *)
LongestRepeat(t) ==
  LET top == Len(t) - 1
      search[range \in (0 .. top) \X (-1 .. top)] ==
        LET low  == range[1]
            high == range[2]
            mid  == (low + high + 1) \div 2
        IN  IF low >= high THEN low
            ELSE search[IF HasRepeat(t, mid) THEN <<mid, high>> ELSE <<low, mid - 1>>]
  IN  IF Len(t) < 2 THEN 0 ELSE search[<<0, top>>]

Output == work[Len(work)]
Short  == args.bench = "llm_inference" /\ Len(Output[1]) # args.size

(* work_hash: the inputs and the shape of the work ...                     *)
ResnetHash == <<args.units, args.warmup, Planned(args)>>
MatmulHash == <<args.size, args.units>>

(* ... or the tokens of the last iteration, one row after the other.       *)
TokenHash ==
  [k \in 1 .. args.batch * args.size |->
     Output[((k - 1) \div args.size) + 1][((k - 1) % args.size) + 1]]

(* config_id: what was asked for.                                          *)
ConfigId ==
  CASE args.bench = "resnet_train"  -> <<"b", BATCH_SIZE, "n", args.units>>
    [] args.bench = "llm_inference" -> <<"b", args.batch, "n", args.size, "i", args.units>>
    [] args.bench = "matmul"        -> <<"n", args.size, "i", args.units>>

WorkHash ==
  CASE args.bench = "resnet_train"  -> ResnetHash
    [] args.bench = "llm_inference" -> TokenHash
    [] args.bench = "matmul"        -> MatmulHash

(* iterations_identical: checked after the region, and recorded.           *)
IterationsIdentical == \A i \in 1 .. Len(work) : work[i] = work[1]

(* Mutation: a constant that was right while there was one iteration.      *)
InnerItersInterim == IF args.bench = "llm_inference" THEN 1 ELSE args.units

(* The loop count the energy is divided by.                                *)
InnerIters == args.units

(* The keys a WorkloadResult owns, those of the precision record that each *)
(* workload passes on, and extra_fields, which sorts the two.              *)
REQUIRED_FIELDS ==
  {"workload", "config_id", "work_hash", "work_hash_kind", "work_hash_covers", "precision",
   "allow_tf32_matmul", "allow_tf32_cudnn", "inner_iters", "runtime_seconds"}

PrecisionRecord ==
  {"precision", "device_requested", "allow_tf32_matmul", "allow_tf32_cudnn", "torch_version"}

(* Mutation: the precision record is passed on as it is.                   *)
ExtraFieldsAll(record) == record

ExtraFields(record) == record \ REQUIRED_FIELDS

(* WorkloadResult.__post_init__, of what the three workloads may give it.  *)
Rejected == ExtraFields(PrecisionRecord) \cap REQUIRED_FIELDS # {} \/ InnerIters < 1

Row ==
  [workload |-> args.bench,
   config_id |-> ConfigId,
   work_hash |-> WorkHash,
   inner_iters |-> InnerIters,
   identical |-> args.bench = "llm_inference" => IterationsIdentical,
   longest |-> IF args.bench = "llm_inference" THEN LongestRepeat(Output[1]) ELSE 0,
   did |-> IF args.bench = "resnet_train"
           THEN [init |-> init, warm |-> warm, work |-> work]
           ELSE [init |-> NoRng, warm |-> <<>>, work |-> work]]

Done == at = "region" /\ Len(work) >= args.units

(* The tokens are too few for the run to be comparable, or the record that *)
(* is made of it is no WorkloadResult.                                     *)
RejectResult ==
  /\ Done /\ (Short \/ Rejected)
  /\ Fail(IF Short THEN "short" ELSE "rejected")

(* The record is returned, and main()'s loop goes on or ends.              *)
Record ==
  /\ Done /\ ~Short /\ ~Rejected
  /\ rows' = Append(rows, Row)
  /\ \E next \in {"call", "none"} :
       /\ next = "call" => Len(rows') < MaxRow
       /\ at' = next
  /\ Leave
  /\ UNCHANGED <<process, rng, failure>>

Next ==
  \/ \E a \in Arguments : Launch(a)
  \/ Refuse \/ SetupRaises \/ Setup
  \/ WarmUp \/ EnterRegion \/ WorkOn \/ UnitRaises
  \/ RejectResult \/ Record

Spec == Init /\ [][Next]_vars

----------------------------------------------------------------------------
(* Rows that analysis would pool, because they agree on config_id and      *)
(* work_hash, come from repetitions that did the same work: the same       *)
(* samples, in the same order, on the same initial weights after the same  *)
(* warmup; or the same tokens, in each iteration, unless the row itself    *)
(* says its iterations differ, which nothing that reads the rows looks at. *)
EqualRowsEqualWork ==
  \A i, j \in 1 .. Len(rows) :
    LET r == rows[i]  s == rows[j]
    IN  (/\ r.workload = s.workload /\ r.config_id = s.config_id /\ r.work_hash = s.work_hash
         /\ r.identical /\ s.identical) => r.did = s.did

(* The energy of the region divided by inner_iters is that of one unit:    *)
(* there are as many units in the region, and they are alike.  Those of    *)
(* resnet_train are whole batches, and no sample is trained on twice;      *)
(* those of the others do the same, the tokens work_hash stands for, where *)
(* llm_inference does not itself say that its iterations differ.  The      *)
(* energy of a row that does say so is that of no unit.                    *)
EnergyIsPerUnit ==
  \A i \in 1 .. Len(rows) :
    LET r == rows[i]
        all == r.did.warm \o r.did.work
    IN  /\ Len(r.did.work) = r.inner_iters
        /\ r.workload # "resnet_train" /\ r.identical =>
             \A k \in 1 .. r.inner_iters : r.did.work[k] = r.did.work[1]
        /\ r.workload = "resnet_train" =>
             /\ \A k \in 1 .. Len(all) : Len(all[k]) = BATCH_SIZE
             /\ Cardinality(UNION {{all[k][n] : n \in 1 .. BATCH_SIZE} : k \in 1 .. Len(all)})
                  = BATCH_SIZE * Len(all)

(* Arguments that were accepted do not fail a run later: it has batches to *)
(* the end, and what it measured is a record that passes.                  *)
AcceptedIsRecorded == failure \notin {"starved", "rejected"}

(* The degeneracy measure is the length of the longest sequence of tokens  *)
(* that occurs at two places of the first row.                             *)
LongestRepeatIsExact ==
  \A i \in 1 .. Len(rows) :
    rows[i].workload = "llm_inference" =>
      LET t == rows[i].did.work[rows[i].inner_iters][1]
          repeats == {n \in 0 .. Len(t) - 1 :
                       \E p, q \in 1 .. Len(t) - n + 1 :
                         p # q /\ \A k \in 0 .. n - 1 : t[p + k] = t[q + k]}
      IN  rows[i].longest = CHOOSE n \in repeats : \A m \in repeats : m <= n
=============================================================================
