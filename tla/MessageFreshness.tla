-------------------------- MODULE MessageFreshness --------------------------
(***************************************************************************)
(* How often one received message is processed.  A cache remembers the     *)
(* messages seen for a limited time (pubsub's for broadcasts, the direct   *)
(* sender's for direct messages) and validateMessageByTimestamp refuses    *)
(* the messages that are too old or too new; a message the network         *)
(* delivers again must be stopped by one or the other.                     *)
(*                                                                         *)
(* Time is a second and a fraction of it: the cache works with the exact   *)
(* time, the comparison of timestamps with whole seconds (Time.Unix).      *)
(*                                                                         *)
(* Two simplifications.  The message is marked as seen right before its    *)
(* timestamp is looked at, by one goroutine and with nothing in between    *)
(* that waits, so the two are one step; and the clock of the cache and the *)
(* syncTimer's are one clock, which is what they are while the NTP offset  *)
(* does not change between the two lookups of a message.                   *)
(***************************************************************************)
EXTENDS Integers

CONSTANTS Messages,
          CacheDuration,    \* seconds a message stays in the cache of seen messages
          PastDuration,     \* pubsubTimeCacheDuration
          AdvanceDuration,  \* acceptMessagesInAdvanceDuration
          Fractions,        \* fractions of a second told apart, from 0 on
          MaxSecond         \* bound: the last second modelled

ASSUME DurationsAssumption ==
    /\ CacheDuration \in Nat /\ PastDuration \in Nat /\ AdvanceDuration \in Nat
    /\ Fractions \in Nat \ {0} /\ MaxSecond \in Nat

Instants == [sec : 0..MaxSecond, frac : 0..(Fractions - 1)]
Never == [sec |-> -1, frac |-> 0]

VARIABLES
    now,          \* the node's clock
    timestamp,    \* timestamp[m]: what the sender wrote into m, a whole second
    seen,         \* seen[m]: when m entered the cache of seen messages, or Never
    processed,    \* processed[m]: how often the processors were given m
    first         \* history: first[m], when that happened first, or Never

vars == <<now, timestamp, seen, processed, first>>

Init ==
    /\ now = [sec |-> 0, frac |-> 0]
    /\ timestamp \in [Messages -> 0..MaxSecond]
    /\ seen = [m \in Messages |-> Never]
    /\ processed = [m \in Messages |-> 0]
    /\ first = [m \in Messages |-> Never]

Tick ==
    /\ \/ /\ now.frac + 1 < Fractions
          /\ now' = [now EXCEPT !.frac = @ + 1]
       \/ /\ now.frac + 1 = Fractions
          /\ now.sec < MaxSecond
          /\ now' = [sec |-> now.sec + 1, frac |-> 0]
    /\ UNCHANGED <<timestamp, seen, processed, first>>

(* The cache drops an entry some time after its duration is over.          *)
Expired(i) == \/ i.sec + CacheDuration < now.sec
              \/ i.sec + CacheDuration = now.sec /\ i.frac < now.frac
Forget(m) ==
    /\ seen[m] # Never
    /\ Expired(seen[m])
    /\ seen' = [seen EXCEPT ![m] = Never]
    /\ UNCHANGED <<now, timestamp, processed, first>>

(* Mutant: the age is not limited.                                         *)
OnlyTooNew(m) == timestamp[m] <= now.sec + AdvanceDuration

ValidateMessageByTimestamp(m) ==
    /\ timestamp[m] <= now.sec + AdvanceDuration
    /\ timestamp[m] >= now.sec - PastDuration

(* Mutant: only the messages that are refused are remembered.              *)
ReceiveUnseen(m) ==
    /\ seen[m] = Never
    /\ processed[m] <= 2
    /\ IF ValidateMessageByTimestamp(m)
       THEN /\ processed' = [processed EXCEPT ![m] = @ + 1]
            /\ first' = [first EXCEPT ![m] = IF @ = Never THEN now ELSE @]
            /\ UNCHANGED seen
       ELSE /\ seen' = [seen EXCEPT ![m] = now]
            /\ UNCHANGED <<processed, first>>
    /\ UNCHANGED <<now, timestamp>>

(* A delivery, the first or a repeated one: a message that is in the cache *)
(* is dropped; one that is not is remembered before it is looked at, and   *)
(* processed when its timestamp is valid.                                  *)
Receive(m) ==
    /\ seen[m] = Never
    /\ seen' = [seen EXCEPT ![m] = now]
    /\ IF ValidateMessageByTimestamp(m)
       THEN /\ processed' = [processed EXCEPT ![m] = @ + 1]
            /\ first' = [first EXCEPT ![m] = IF @ = Never THEN now ELSE @]
       ELSE UNCHANGED <<processed, first>>
    /\ UNCHANGED <<now, timestamp>>

Next == Tick \/ \E m \in Messages : Forget(m) \/ Receive(m)
Spec == Init /\ [][Next]_vars
-----------------------------------------------------------------------------
TypeOK ==
    /\ now \in Instants
    /\ timestamp \in [Messages -> 0..MaxSecond]
    /\ seen \in [Messages -> Instants \cup {Never}]
    /\ processed \in [Messages -> Nat]
    /\ first \in [Messages -> Instants \cup {Never}]

(* A message written in a second before the one it was processed in is     *)
(* never processed again: when the cache has forgotten it, it is too old   *)
(* (validateMessageByTimestamp; the cache keeps it as long as timestamps   *)
(* are accepted).                                                          *)
PastMessagesProcessedOnce ==
    \A m \in Messages :
      processed[m] > 1 /\ PastDuration <= CacheDuration => timestamp[m] >= first[m].sec

(* What the comment on validateMessageByTimestamp says of the timestamp of *)
(* an accepted message: it "should be in the interval                      *)
(* (now-pubsubTimeCacheDuration+acceptMessagesInAdvanceDuration,           *)
(* now+acceptMessagesInAdvanceDuration)".  Violated at the lower end: the  *)
(* code subtracts pubsubTimeCacheDuration and adds nothing.                *)
ProcessedInStatedInterval ==
    \A m \in Messages : first[m] # Never =>
      timestamp[m] >= first[m].sec - PastDuration + AdvanceDuration

(* Whatever its timestamp, a message is processed at most twice.  Within   *)
(* the open interval that comment states it would be once: a message would *)
(* be accepted no longer than the cache remembers it.  The lower bound of  *)
(* the code makes that time AdvanceDuration longer, so that a message from *)
(* the future, delivered again after the cache has dropped it, is          *)
(* processed a second time.                                                *)
ProcessedAtMostTwice ==
    PastDuration + AdvanceDuration < 2 * CacheDuration
      => \A m \in Messages : processed[m] <= 2
=============================================================================
