-------------------------------- MODULE Start --------------------------------
(***************************************************************************)
(* The program of assignment 1 (a1/src/start.cc) before its requests run:  *)
(* main reads its options (a1/include/config.h), chooses the database,     *)
(* generates the requests and creates the launcher.  With the process pool *)
(* it then copies requests into the buffers of the pooled processes.       *)
(*                                                                         *)
(* The pool launchers are unfinished: assert(false) stands where code is   *)
(* to be written.  Creating one ends the program there, or goes on as if   *)
(* the missing code were written; which process of the pool is idle is     *)
(* then left open.                                                         *)
(***************************************************************************)
EXTENDS RequestCopy, FiniteSets, Functions

CONSTANTS
  TypeNumbers,    \* what atoi may give for --exp_type
  SizeNumbers,    \* what atoi may give for --max_outstanding and --pool_size
  TestDbSize,     \* test_db_sz
  HighDbSize,     \* HIGH_DATABASE_SZ
  LowDbSize,      \* LOW_DATABASE_SZ
  TxnSz,          \* TXN_SZ
  NumFields,      \* RECORD_SIZE / FIELD_SIZE
  RandMax,        \* RAND_MAX
  NumRequests,    \* bound: the requests generated
  RqstBufSz       \* RQST_BUF_SZ

(* A request of TXN_SZ keys fits into each database and into its buffer.   *)
ASSUME StartAssumption ==
  /\ TypeNumbers \cup SizeNumbers \subseteq Int
  /\ {TestDbSize, HighDbSize, LowDbSize, TxnSz, NumFields, NumRequests} \subseteq Nat \ {0}
  /\ {RandMax, RqstBufSz} \subseteq Nat
  /\ \A size \in {TestDbSize, HighDbSize, LowDbSize} : TxnSz <= size /\ size <= RandMax + 1
  /\ RqstBufSz >= WordBytes * (HeaderWords + TxnSz + NumFields)

VARIABLES
  phase,      \* where the main thread is
  arg_map,    \* _arg_map: the options read, with their arguments
  conf,       \* the members of expt_config that have been set
  db_size,    \* the records of the database
  shared,     \* multiProcess: its mutexes are shared between processes
  seen,       \* seen_keys of generate_single_request
  writeset,   \* its writeset, as far as it is drawn
  reqs,       \* the requests generated
  launcher,   \* the launcher's class and the argument of its constructor
  line,       \* what write_results has appended to the results
  memory,     \* req_bufs of the process pool, in words
  held        \* history: the request copied last into each buffer

config    == <<arg_map, conf>>
generator == <<db_size, shared, seen, writeset, reqs>>
pooled    == <<memory, held>>
startvars == <<phase, config, generator, launcher, line, pooled>>

Sizes   == {"max_outstanding", "pool_size"}
Flags   == {"test", "contention"}
Options == Sizes \cup Flags \cup {"exp_type"}
Class   == <<"ProcessPoolLauncher", "ProcessLauncher", "ThreadPoolLauncher", "ThreadLauncher">>

Empty == [x \in {} |-> 0]

StartInit ==
  /\ phase = "read_args"
  /\ arg_map = Empty
  /\ conf = Empty
  /\ db_size = 0
  /\ shared = FALSE
  /\ seen = {}
  /\ writeset = <<>>
  /\ reqs = <<>>
  /\ launcher = <<>>
  /\ line = <<>>
  /\ memory = Empty
  /\ held = Empty

-----------------------------------------------------------------------------
(* The arguments getopt may find with an option; atoi is applied later.    *)
Arguments(o) ==
  CASE o \in Flags -> {0}
    [] o \in Sizes -> SizeNumbers
    [] OTHER -> TypeNumbers

(* read_args: an option not seen before.                                   *)
ReadArg(o) ==
  /\ phase = "read_args"
  /\ o \notin DOMAIN arg_map
  /\ \E n \in Arguments(o) :
       arg_map' = [a \in {o} \cup DOMAIN arg_map |-> IF a = o THEN n ELSE arg_map[a]]
  /\ UNCHANGED <<phase, conf, generator, launcher, line, pooled>>

(* An unknown option, one without its argument, or one given twice: exit.  *)
BadArg ==
  /\ phase = "read_args"
  /\ phase' = "exited"
  /\ UNCHANGED <<config, generator, launcher, line, pooled>>

EndArgs ==
  /\ phase = "read_args"
  /\ phase' = "init_config"
  /\ UNCHANGED <<config, generator, launcher, line, pooled>>

(* Mutant: the second type is taken for a pool.                            *)
SizeOptionShifted(type) == IF type \in {0, 1} THEN "pool_size" ELSE "max_outstanding"

(* The option that goes with a type of experiment.                         *)
SizeOption(type) == IF type \in {0, 2} THEN "pool_size" ELSE "max_outstanding"

(* The checks of init_config, each of which exits.                         *)
Accepted ==
  /\ "exp_type" \in DOMAIN arg_map
  /\ arg_map["exp_type"] \in 0..3
  /\ Sizes \cap DOMAIN arg_map = {SizeOption(arg_map["exp_type"])}

InitConfig ==
  /\ phase = "init_config"
  /\ \/ /\ Accepted
        /\ LET size == SizeOption(arg_map["exp_type"])
           IN  conf' = [m \in {"type", size} \cup Flags |->
                          CASE m = "type" -> arg_map["exp_type"]
                            [] m = size   -> arg_map[size]
                            [] OTHER      -> m \in DOMAIN arg_map]
        /\ phase' = "create_db"
     \/ /\ ~Accepted
        /\ phase' = "exited"
        /\ UNCHANGED conf
  /\ UNCHANGED <<arg_map, generator, launcher, line, pooled>>

-----------------------------------------------------------------------------
(* main and run_test: Database::Create.                                    *)
CreateDatabase ==
  /\ phase = "create_db"
  /\ db_size' = IF conf["test"] THEN TestDbSize
                ELSE IF conf["contention"] THEN HighDbSize ELSE LowDbSize
  /\ shared' = (conf["type"] \in {0, 1})
  /\ phase' = "generate"
  /\ UNCHANGED <<config, seen, writeset, reqs, launcher, line, pooled>>

(* Mutant: the keys drawn before are not remembered.                       *)
GenUniqueForgets(max) ==
  \E n \in 0..RandMax :
    LET gen == n % max
    IN  /\ writeset' = Append(writeset, gen)
        /\ UNCHANGED seen

(* Mutant: the last key is never drawn.                                    *)
GenUniqueOffByOne(max) ==
  \E n \in 0..RandMax :
    LET gen == n % (max - 1)
    IN  /\ gen \notin seen
        /\ seen' = seen \cup {gen}
        /\ writeset' = Append(writeset, gen)

(* gen_unique: rand() until the key is new.  A draw of a key seen before   *)
(* changes nothing.                                                        *)
GenUnique(max) ==
  \E n \in 0..RandMax :
    LET gen == n % max
    IN  /\ gen \notin seen
        /\ seen' = seen \cup {gen}
        /\ writeset' = Append(writeset, gen)

(* One iteration of the first loop of generate_single_request.             *)
DrawKey ==
  /\ phase = "generate"
  /\ Len(writeset) < TxnSz
  /\ GenUnique(db_size)
  /\ UNCHANGED <<phase, config, db_size, shared, reqs, launcher, line, pooled>>

(* The updates and the new request; the next call starts with no keys.     *)
NewRequest ==
  /\ phase = "generate"
  /\ Len(writeset) = TxnSz
  /\ \E u \in [1..NumFields -> 0..RandMax] :
       reqs' = Append(reqs, [db |-> db_size, writeset |-> writeset, updates |-> u])
  /\ seen' = {}
  /\ writeset' = <<>>
  /\ phase' = IF Len(reqs') = NumRequests THEN "launch" ELSE "generate"
  /\ UNCHANGED <<config, db_size, shared, launcher, line, pooled>>

-----------------------------------------------------------------------------
(* A member of conf; one that was never set has whatever value.            *)
MemberOf(m) == IF m \in DOMAIN conf THEN {conf[m]} ELSE SizeNumbers

(* The assertions at the head of the constructors.  ProcessPoolLauncher    *)
(* has none; with no process it writes in front of its array.  An int is   *)
(* below INT_MAX here.                                                     *)
ConstructorAccepts(type, n) == type = 3 \/ n > 0

(* The choice of a launcher in main and in run_test, by type.              *)
LauncherMember(type) ==
  CASE Class[type + 1] \in {"ProcessLauncher", "ThreadLauncher"} -> "max_outstanding"
    [] OTHER -> "pool_size"

CreateLauncher ==
  /\ phase = "launch"
  /\ \E n \in MemberOf(LauncherMember(conf["type"])) :
       /\ launcher' = <<conf["type"], n>>
       /\ \/ ConstructorAccepts(conf["type"], n) /\ phase' = "run"
          \/ conf["type"] \in {0, 2} /\ phase' = "aborted"
          \/ ~ConstructorAccepts(conf["type"], n) /\ phase' = "aborted"
  /\ LET procs == IF conf["type"] = 0 /\ phase' = "run" THEN launcher'[2] ELSE 0
     IN  /\ memory' = [a \in 0..((procs * RqstBufSz) \div WordBytes - 1) |-> 0]
         /\ held' = [i \in 0..(procs - 1) |-> 0]
  /\ UNCHANGED <<config, generator, line>>

(* The end of the experiment: write_results.  A test writes nothing.       *)
WriteResults ==
  /\ phase = "run"
  /\ \E n \in MemberOf(LauncherMember(conf["type"])) :
       line' = IF conf["test"] THEN <<>> ELSE <<conf["type"], n, conf["contention"]>>
  /\ phase' = "returned"
  /\ UNCHANGED <<config, generator, launcher, pooled>>

(* The buffer of a process of the pool.                                    *)
Buffer(i) == i * RqstBufSz

(* ProcessPoolLauncher::ExecuteRequest: the copy into the buffer of an     *)
(* idle process.                                                           *)
Assign(i, k) ==
  /\ phase = "run"
  /\ conf["type"] = 0
  /\ CopySize(reqs[k]) <= RqstBufSz
  /\ memory' = CopyRequest(memory, Buffer(i), reqs[k])
  /\ held' = [held EXCEPT ![i] = k]
  /\ UNCHANGED <<phase, config, generator, launcher, line>>

MainProgram ==
  \/ \E o \in Options : ReadArg(o)
  \/ BadArg \/ EndArgs \/ InitConfig
  \/ CreateDatabase \/ DrawKey \/ NewRequest
  \/ CreateLauncher \/ WriteResults

StartNext == MainProgram \/ \E i \in DOMAIN held, k \in DOMAIN reqs : Assign(i, k)

(* The main thread runs on; rand() does not repeat the keys of one request *)
(* for ever.                                                               *)
StartSpec == StartInit /\ [][StartNext]_startvars /\ WF_startvars(MainProgram)

-----------------------------------------------------------------------------
(* What the program was told is what it does: the launcher is given the    *)
(* argument of the option that goes with its type, no option that was read *)
(* is left out, the line in the results says the same, and a launcher that *)
(* forks runs on mutexes that processes can share.                         *)
OptionsReachLauncher ==
  launcher # <<>> =>
    LET type == launcher[1]
    IN  /\ Class[type + 1] = Class[arg_map["exp_type"] + 1]
        /\ LauncherMember(type) \in DOMAIN arg_map
        /\ launcher[2] = arg_map[LauncherMember(type)]
        /\ DOMAIN arg_map \subseteq Flags \cup {"exp_type", LauncherMember(type)}
        /\ shared <=> Class[type + 1] \in {"ProcessPoolLauncher", "ProcessLauncher"}
        /\ line # <<>> => line = <<type, launcher[2], "contention" \in DOMAIN arg_map>>

(* What Execute and its locks rely on: the keys of a request are distinct  *)
(* and within the database it was generated for.                           *)
WriteSetsDistinct ==
  \A k \in DOMAIN reqs :
    LET keys == Range(reqs[k].writeset)
    IN  /\ Cardinality(keys) = TxnSz
        /\ keys \subseteq 0..(db_size - 1)

(* However requests are copied into the buffers of the pool, each buffer   *)
(* holds all of the request copied into it last, and nothing of the copy   *)
(* lies outside its buffer or in the original.                             *)
CopyIsFaithful ==
  \A i \in DOMAIN held : held[i] # 0 =>
    /\ LiesIn(memory, Buffer(i), Buffer(i) + RqstBufSz, NumFields)
    /\ RequestAt(memory, Buffer(i), NumFields) = reqs[held[i]]

(* Every request gets its keys: gen_unique does not look for a key that is *)
(* not there.                                                              *)
GenerationEnds == (phase = "generate") ~> (phase = "launch")
=============================================================================
