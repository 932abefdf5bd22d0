------------------------------- MODULE Primes -------------------------------
(***************************************************************************)
(* hw5/Q1/pipe.c: main() forks one child per processor; each writes the    *)
(* primes of its range into one pipe, and main() adds up what it reads     *)
(* until the end of file.  The end of file is what tells it that all       *)
(* children have closed their end, so it must have closed its own.         *)
(***************************************************************************)
EXTENDS Naturals, Sequences, FiniteSets

CONSTANTS
  ANSWER_UP_TO,
  nproc,        \* the processors online
  PipeSize      \* how many integers the pipe holds

PrimesAssumption == ANSWER_UP_TO \in Nat /\ nproc \in Nat \ {0} /\ PipeSize \in Nat \ {0}

VARIABLES
  main,       \* where main() stands
  i,          \* the next child to fork
  at,         \* at[c]: where child c stands
  num,        \* num[c]: the number c looks at next
  pipe,       \* what is in the pipe
  total_sum

primesVars == <<main, i, at, num, pipe, total_sum>>

Kids == 0 .. nproc - 1

TypeOK ==
  /\ main \in {"fork", "close", "read", "wait", "done", "failed"}
  /\ i \in 0 .. nproc
  /\ at \in [Kids -> {"unborn", "starts", "searches", "exited", "killed"}]
  /\ num \in [Kids -> 0 .. ANSWER_UP_TO]
  /\ pipe \in Seq(0 .. ANSWER_UP_TO) /\ Len(pipe) <= PipeSize
  /\ total_sum \in Nat

Init ==
  /\ main = "fork" /\ i = 0
  /\ at = [c \in Kids |-> "unborn"]
  /\ num = [c \in Kids |-> 0]
  /\ pipe = <<>>
  /\ total_sum = 0

-----------------------------------------------------------------------------
(* Mutant: takes the square of an odd prime for a prime.                    *)
check_prime_Square(n) ==
  \/ n = 2
  \/ n > 2 /\ n % 2 # 0 /\ \A k \in 3 .. n : k % 2 = 1 /\ k * k < n => n % k # 0

check_prime(n) ==
  \/ n = 2
  \/ n > 2 /\ n % 2 # 0 /\ \A k \in 3 .. n : k % 2 = 1 /\ k * k <= n => n % k # 0

child_range == ANSWER_UP_TO \div nproc
start(c)    == c * child_range
end(c)      == IF c = nproc - 1 THEN ANSWER_UP_TO ELSE (c + 1) * child_range

Ended(c) == at[c] \in {"unborn", "exited", "killed"}

(* A child inherits both ends of the pipe and closes the read end itself.   *)
HasReader == main \in {"fork", "close", "read"} \/ \E c \in Kids : at[c] = "starts"
HasWriter == main \in {"fork", "close"} \/ \E c \in Kids : at[c] \in {"starts", "searches"}

-----------------------------------------------------------------------------
(* Child c. *)
CloseReadEnd(c) ==
  /\ at[c] = "starts"
  /\ at' = [at EXCEPT ![c] = "searches"]
  /\ num' = [num EXCEPT ![c] = start(c)]
  /\ UNCHANGED <<main, i, pipe, total_sum>>

SkipNumber(c) ==
  /\ at[c] = "searches" /\ num[c] < end(c)
  /\ ~check_prime(num[c])
  /\ num' = [num EXCEPT ![c] = @ + 1]
  /\ UNCHANGED <<main, i, at, pipe, total_sum>>

(* write() blocks on a full pipe; an int is written in one piece.           *)
WritePrime(c) ==
  /\ at[c] = "searches" /\ num[c] < end(c)
  /\ check_prime(num[c])
  /\ HasReader /\ Len(pipe) < PipeSize
  /\ pipe' = Append(pipe, num[c])
  /\ num' = [num EXCEPT ![c] = @ + 1]
  /\ UNCHANGED <<main, i, at, total_sum>>

(* Nobody can read the pipe any more: SIGPIPE. *)
DieOfSigpipe(c) ==
  /\ at[c] = "searches" /\ num[c] < end(c)
  /\ check_prime(num[c])
  /\ ~HasReader
  /\ at' = [at EXCEPT ![c] = "killed"]
  /\ UNCHANGED <<main, i, num, pipe, total_sum>>

ChildExits(c) ==
  /\ at[c] = "searches" /\ num[c] = end(c)
  /\ at' = [at EXCEPT ![c] = "exited"]
  /\ UNCHANGED <<main, i, num, pipe, total_sum>>

child(c) ==
  CloseReadEnd(c) \/ SkipNumber(c) \/ WritePrime(c) \/ DieOfSigpipe(c) \/ ChildExits(c)

-----------------------------------------------------------------------------
(* main() *)
ForkChild ==
  /\ main = "fork"
  /\ at' = [at EXCEPT ![i] = "starts"]
  /\ i' = i + 1
  /\ main' = IF i + 1 = nproc THEN "close" ELSE "fork"
  /\ UNCHANGED <<num, pipe, total_sum>>

(* A fork that fails ends main(), and the children go on without it.        *)
ForkFails ==
  /\ main = "fork"
  /\ main' = "failed"
  /\ UNCHANGED <<i, at, num, pipe, total_sum>>

CloseWriteEnd ==
  /\ main = "close"
  /\ main' = "read"
  /\ UNCHANGED <<i, at, num, pipe, total_sum>>

ReadPrime ==
  /\ main = "read" /\ pipe # <<>>
  /\ total_sum' = total_sum + Head(pipe)
  /\ pipe' = Tail(pipe)
  /\ UNCHANGED <<main, i, at, num>>

(* read() returns 0 once the pipe is empty and has no writer; then main()   *)
(* closes the read end.                                                     *)
ReadEndOfFile ==
  /\ main = "read" /\ pipe = <<>> /\ ~HasWriter
  /\ main' = "wait"
  /\ UNCHANGED <<i, at, num, pipe, total_sum>>

WaitForAll ==
  /\ main = "wait"
  /\ \A c \in Kids : Ended(c)
  /\ main' = "done"
  /\ UNCHANGED <<i, at, num, pipe, total_sum>>

parent == ForkChild \/ ForkFails \/ CloseWriteEnd \/ ReadPrime \/ ReadEndOfFile \/ WaitForAll

Next == parent \/ \E c \in Kids : child(c)

Spec == Init /\ [][Next]_primesVars

-----------------------------------------------------------------------------
(***************************************************************************)
(* Properties.                                                             *)
(***************************************************************************)
AtRest == main \in {"done", "failed"} /\ \A c \in Kids : Ended(c)

IsPrime(n) == n > 1 /\ \A d \in 2 .. n - 1 : n % d # 0

SumOfPrimes[n \in Nat] ==
  IF n = 0 THEN 0 ELSE SumOfPrimes[n - 1] + (IF IsPrime(n - 1) THEN n - 1 ELSE 0)

(* The end of file comes neither before the last prime of the last child,   *)
(* nor is a number tested twice or by nobody: what main() prints is the sum *)
(* of all primes below ANSWER_UP_TO.                                        *)
SumRight == main \in {"wait", "done"} => total_sum = SumOfPrimes[ANSWER_UP_TO]

=============================================================================
