------------------------------ MODULE BusSend ------------------------------
(***************************************************************************)
(* Bus::send and the DriverImpl::write under it: the synchronous path,     *)
(* with its retry loop.  Several application threads send at once while    *)
(* the bus is stopped and started and the driver closed and opened between *)
(* their attempts.  Every attempt runs under rMutex and wMutex and, in     *)
(* write(), under the driver's mutex, so it is one atomic step; the sleeps *)
(* between the attempts hold no lock.                                      *)
(***************************************************************************)
EXTENDS Integers

CONSTANTS Senders,      \* application threads
          Timeouts      \* values of the `timeout' argument, in ms

ASSUME SendAssumption == Timeouts \subseteq Int

VARIABLES started,   \* Bus::started
          status,    \* DriverImpl::status
          pc,        \* pc[s]: where thread s is in Bus::send
          frame,     \* frame[s]: the kind of frame it sends
          timeout,   \* timeout[s]: its argument
          retry,     \* retry[s]: the local counter of the retry loop
          tries,     \* history: attempts of the current (or last) call
          acks,      \* history: attempts after which write() returned normally
          result,    \* history: the last sendResult of HdmiCecTx in the call
          slept      \* history: milliseconds of usleep in the call

args == <<frame, timeout>>
env == <<started, status>>
vars == <<env, pc, args, retry, tries, acks, result, slept>>

(* What write() tells apart: a frame with one follower, a broadcast, the   *)
(* broadcast <Report Physical Address> (CEC CTS 9-3-3), and no byte at all.*)
Frame == {"direct", "broadcast", "report_physical_address", "empty"}

(* The status codes of the HAL interface.                                  *)
HalResult == {"SUCCESS", "SENT_BUT_NOT_ACKD", "SENT_FAILED", "GENERAL_ERROR", "INVALID_HANDLE",
              "INVALID_ARGUMENT", "INVALID_STATE", "LOGICALADDRESS_UNAVAILABLE", "NOT_OPENED",
              "ALREADY_OPEN"}

(* DriverImpl::write's verdict on sendResult once HdmiCecTx returned       *)
(* success itself: "ok" is a normal return.                                *)
WriteVerdict(f, res) ==
    CASE res \in {"INVALID_HANDLE", "INVALID_ARGUMENT", "LOGICALADDRESS_UNAVAILABLE",
                  "SENT_FAILED", "GENERAL_ERROR"} -> "IOException"
      [] res = "SENT_BUT_NOT_ACKD" /\ f # "broadcast" -> "CECNoAckException"
      [] OTHER -> "ok"

(* The retry counter of a call, and the number of attempts it grants.      *)
Retries(t) == IF t > 0 THEN t \div 250 ELSE 0

Init ==
    /\ started \in BOOLEAN /\ status \in {"OPENED", "CLOSED"}
    /\ pc = [s \in Senders |-> "idle"]
    /\ frame = [s \in Senders |-> "direct"] /\ timeout = [s \in Senders |-> 0]
    /\ retry = [s \in Senders |-> 0] /\ tries = [s \in Senders |-> 0]
    /\ acks = [s \in Senders |-> 0] /\ result = [s \in Senders |-> "SUCCESS"]
    /\ slept = [s \in Senders |-> 0]
-----------------------------------------------------------------------------
SendCall(s, f, t) ==
    /\ pc[s] \in {"idle", "returned", "thrown"}
    /\ frame' = [frame EXCEPT ![s] = f]
    /\ timeout' = [timeout EXCEPT ![s] = t]
    /\ retry' = [retry EXCEPT ![s] = Retries(t)]
    /\ tries' = [tries EXCEPT ![s] = 0]
    /\ acks' = [acks EXCEPT ![s] = 0]
    /\ result' = [result EXCEPT ![s] = "SUCCESS"]
    /\ slept' = [slept EXCEPT ![s] = 0]
    /\ pc' = [pc EXCEPT ![s] = IF t > 0 THEN "pause" ELSE "attempt"]
    /\ UNCHANGED env

(* Bus::poll and Bus::ping: a header-only frame, one attempt.              *)
PollCall(s) == \E f \in {"direct", "broadcast"} : SendCall(s, f, 0)

(* Mutant: the loop waits for the bus to be started.                       *)
PauseUntilStarted(s) ==
    /\ pc[s] = "pause" /\ started
    /\ slept' = [slept EXCEPT ![s] = @ + 1]
    /\ pc' = [pc EXCEPT ![s] = "attempt"]
    /\ UNCHANGED <<env, args, retry, tries, acks, result>>

(* usleep(1000) at the head of the loop.                                   *)
Pause(s) ==
    /\ pc[s] = "pause"
    /\ slept' = [slept EXCEPT ![s] = @ + 1]
    /\ pc' = [pc EXCEPT ![s] = "attempt"]
    /\ UNCHANGED <<env, args, retry, tries, acks, result>>

(* The attempt reaches HdmiCecTx.                                          *)
Transmits(s) ==
    pc[s] = "attempt" /\ started /\ status = "OPENED" /\ frame[s] # "empty"

(* Mutant: a success does not end the loop.                                *)
AttemptOkGoesOn(s) ==
    /\ Transmits(s)
    /\ \E res \in HalResult :
          /\ WriteVerdict(frame[s], res) = "ok"
          /\ result' = [result EXCEPT ![s] = res]
    /\ tries' = [tries EXCEPT ![s] = @ + 1]
    /\ acks' = [acks EXCEPT ![s] = @ + 1]
    /\ pc' = [pc EXCEPT ![s] = IF retry[s] = 0 THEN "returned" ELSE "backoff"]
    /\ UNCHANGED <<env, args, retry, slept>>

(* An attempt whose write() returns: retry = 0, and the loop ends.         *)
AttemptOk(s) ==
    /\ Transmits(s)
    /\ \E res \in HalResult :
          /\ WriteVerdict(frame[s], res) = "ok"
          /\ result' = [result EXCEPT ![s] = res]
    /\ tries' = [tries EXCEPT ![s] = @ + 1]
    /\ acks' = [acks EXCEPT ![s] = @ + 1]
    /\ retry' = [retry EXCEPT ![s] = 0]
    /\ pc' = [pc EXCEPT ![s] = "returned"]
    /\ UNCHANGED <<env, args, slept>>

(* Mutant: the last attempt is granted one retry more.                     *)
GiveUpLate(s) == pc' = [pc EXCEPT ![s] = IF retry[s] < 0 THEN "thrown" ELSE "backoff"]

(* A failed attempt: the exception leaves send() when no retry is left.    *)
GiveUpOrRetry(s) == pc' = [pc EXCEPT ![s] = IF retry[s] = 0 THEN "thrown" ELSE "backoff"]

(* The attempt fails before HdmiCecTx reports a result: bus not started,   *)
(* driver not open, or HdmiCecTx itself returns an error.                  *)
AttemptRefused(s) ==
    /\ pc[s] = "attempt"
    /\ frame[s] = "empty" => ~started
    /\ tries' = [tries EXCEPT ![s] = @ + 1]
    /\ GiveUpOrRetry(s)
    /\ UNCHANGED <<env, args, retry, acks, result, slept>>

(* The attempt fails with the result of the transmission.                  *)
AttemptFailed(s) ==
    /\ Transmits(s)
    /\ \E res \in HalResult :
          /\ WriteVerdict(frame[s], res) # "ok"
          /\ result' = [result EXCEPT ![s] = res]
    /\ tries' = [tries EXCEPT ![s] = @ + 1]
    /\ GiveUpOrRetry(s)
    /\ UNCHANGED <<env, args, retry, acks, slept>>

(* Logging an empty frame, before the status is looked at, throws the      *)
(* library's std::out_of_range, which no handler of send() matches: the    *)
(* retries that are left are not made.                                     *)
AttemptEscapes(s) ==
    /\ pc[s] = "attempt" /\ started /\ frame[s] = "empty"
    /\ tries' = [tries EXCEPT ![s] = @ + 1]
    /\ pc' = [pc EXCEPT ![s] = "thrown"]
    /\ UNCHANGED <<env, args, retry, acks, result, slept>>

(* Mutant: the counter is not decremented.                                 *)
BackoffForever(s) ==
    /\ pc[s] = "backoff"
    /\ slept' = [slept EXCEPT ![s] = @ + 250]
    /\ pc' = [pc EXCEPT ![s] = "pause"]
    /\ slept[s] < 1500
    /\ UNCHANGED <<env, args, retry, tries, acks, result>>

(* usleep(250000), while (retry--).                                        *)
Backoff(s) ==
    /\ pc[s] = "backoff"
    /\ slept' = [slept EXCEPT ![s] = @ + 250]
    /\ retry' = [retry EXCEPT ![s] = @ - 1]
    /\ pc' = [pc EXCEPT ![s] = "pause"]
    /\ UNCHANGED <<env, args, tries, acks, result>>

(* Bus::start and Bus::stop, Driver::open and Driver::close, as a sender   *)
(* sees them between two of its attempts (see module Bus).                 *)
Toggle ==
    /\ \/ started' = ~started /\ UNCHANGED status
       \/ status' = (IF status = "OPENED" THEN "CLOSED" ELSE "OPENED") /\ UNCHANGED started
    /\ UNCHANGED <<pc, args, retry, tries, acks, result, slept>>

SenderStep(s) ==
    \/ Pause(s) \/ AttemptOk(s) \/ AttemptRefused(s) \/ AttemptFailed(s)
    \/ AttemptEscapes(s) \/ Backoff(s)

Next ==
    \/ \E s \in Senders : SenderStep(s) \/ PollCall(s)
    \/ \E s \in Senders, f \in Frame, t \in Timeouts : SendCall(s, f, t)
    \/ Toggle

Spec == Init /\ [][Next]_vars

(* A thread inside send() keeps running: its sleeps end and the mutexes it *)
(* takes are held for one attempt at a time.                               *)
FairSpec == Spec /\ \A s \in Senders : WF_vars(SenderStep(s))
-----------------------------------------------------------------------------
(* Properties                                                              *)

(* The variables have their types; the retry counter never goes negative.  *)
TypeOK ==
    /\ started \in BOOLEAN /\ status \in {"OPENED", "CLOSED"}
    /\ pc \in [Senders -> {"idle", "pause", "attempt", "backoff", "returned", "thrown"}]
    /\ frame \in [Senders -> Frame] /\ timeout \in [Senders -> Timeouts \cup {0}]
    /\ retry \in [Senders -> Nat] /\ tries \in [Senders -> Nat] /\ acks \in [Senders -> Nat]
    /\ result \in [Senders -> HalResult] /\ slept \in [Senders -> Nat]

(* send() tells its caller what happened: it returns only after exactly    *)
(* one attempt on which write() returned, and throws only if every attempt *)
(* the timeout grants has failed, or at once for an empty frame; a frame   *)
(* that got through is never sent a second time, and an empty one never    *)
(* counts as sent, whatever stops and reopens happen between the attempts. *)
OutcomeIsTrue ==
    \A s \in Senders :
        /\ pc[s] = "returned" => acks[s] = 1 /\ frame[s] # "empty"
        /\ pc[s] = "thrown" => acks[s] = 0 /\ (frame[s] # "empty" => tries[s] = Retries(timeout[s]) + 1)
        /\ tries[s] <= Retries(timeout[s]) + 1
        /\ pc[s] \in {"pause", "attempt", "backoff"} => acks[s] = 0

(* What the sleeps of a call add up to: the timeout rounded down to a      *)
(* multiple of 250 ms, and one ms per attempt.                             *)
SleepIsBounded ==
    \A s \in Senders : slept[s] <= Retries(timeout[s]) * 251 + 1

(* In the loop, the retries left determine the attempts made and the time  *)
(* slept: the counter of the code is the only bookkeeping there is.        *)
RetryAccount ==
    \A s \in Senders :
        LET spent == Retries(timeout[s]) - retry[s]
        IN  /\ pc[s] \in {"pause", "attempt", "backoff"} =>
                  /\ retry[s] <= Retries(timeout[s])
                  /\ tries[s] = spent + (IF pc[s] = "backoff" THEN 1 ELSE 0)
            /\ pc[s] = "pause" => timeout[s] > 0 /\ slept[s] = spent * 251
            /\ pc[s] = "attempt" => slept[s] = spent * 251 + (IF timeout[s] > 0 THEN 1 ELSE 0)
            /\ pc[s] = "backoff" => retry[s] > 0 /\ timeout[s] > 0 /\ slept[s] = spent * 251 + 1

(* The inductive invariant behind OutcomeIsTrue and SleepIsBounded.        *)
IInv == TypeOK /\ OutcomeIsTrue /\ SleepIsBounded /\ RetryAccount

(* Every call of send() returns or throws.                                 *)
SendEnds == \A s \in Senders : (pc[s] = "pause") ~> (pc[s] \in {"returned", "thrown"})

(* The README: HAL status codes are checked, failures become exceptions.   *)
FailuresAreReported ==
    \A s \in Senders : pc[s] = "returned" => result[s] \in {"SUCCESS", "SENT_BUT_NOT_ACKD"}
=============================================================================
