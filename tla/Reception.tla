----------------------------- MODULE Reception ------------------------------
(***************************************************************************)
(* What becomes of the messages a node receives before they are dispatched *)
(* to its processors.  Broadcasts come from pubsub, which has verified     *)
(* their signature and remembers them (MessageFreshness): the validator    *)
(* transforms and checks them and denies the peers that relay or originate *)
(* one it cannot read.  Direct messages come over a stream from a          *)
(* connected peer: the direct sender checks them field by field, remembers *)
(* them in a cache of its own and only then verifies their signature.      *)
(***************************************************************************)
EXTENDS MessageFreshness, FiniteSets

CONSTANTS Peers,
          Originator,           \* Originator[m]: who a message says it is from
          DirectMessages,       \* identities (From and Seqno) of direct messages
          DirectCacheDuration,  \* timeSeenMessages, in seconds
          BanDuration           \* WrongP2PMessageBlacklistDuration, in seconds

ASSUME ReceptionAssumption ==
    /\ Originator \in [Messages \cup DirectMessages -> Peers]
    /\ DirectCacheDuration \in Nat /\ BanDuration \in Nat

(* A copy of a direct message: whether the fields are the ones a node      *)
(* sends, and whether signature and content are in order.                  *)
Copies == [fields : BOOLEAN, signature : {"valid", "none", "wrong"}, readable : BOOLEAN]

VARIABLES
    malformed,     \* the broadcasts that NewMessage cannot transform
    dTimestamp, dSeen, dProcessed, dFirst,  \* MessageFreshness of the direct messages
    handlerSet,    \* directSender.messageHandler is registered
    hasProcessor,  \* a processor is registered for the topic of the direct messages
    bannedUntil,   \* bannedUntil[p]: the second p's denial ends, 0 for none
    lastOffence,   \* history: lastOffence[p], the second of p's last unreadable
                   \* broadcast, or -1
    excused        \* history: direct messages a copy of which their originator
                   \* sent broken, out of time or before there was a processor

Direct == INSTANCE MessageFreshness
          WITH Messages <- DirectMessages, CacheDuration <- DirectCacheDuration,
               timestamp <- dTimestamp, seen <- dSeen, processed <- dProcessed,
               first <- dFirst

directVars == <<dTimestamp, dSeen, dProcessed, dFirst>>
banVars == <<bannedUntil, lastOffence>>
setupVars == <<malformed, handlerSet, hasProcessor>>
receptionVars == <<vars, directVars, banVars, setupVars, excused>>

ReceptionInit ==
    /\ Init /\ Direct!Init
    /\ malformed \in SUBSET Messages
    /\ handlerSet = FALSE /\ hasProcessor = FALSE
    /\ bannedUntil = [p \in Peers |-> 0]
    /\ lastOffence = [p \in Peers |-> -1]
    /\ excused = {}

Time ==
    /\ Tick
    /\ UNCHANGED <<directVars, banVars, setupVars, excused>>
-----------------------------------------------------------------------------
(* The denial evaluator of the connection monitor.                         *)
IsDenied(p) == now.sec < bannedUntil[p]

(* blacklistPid: a peer that is denied already keeps its term.             *)
BlacklistPid(S) ==
    /\ bannedUntil' = [p \in Peers |-> IF p \in S /\ ~IsDenied(p)
                                       THEN now.sec + BanDuration ELSE bannedUntil[p]]
    /\ lastOffence' = [p \in Peers |-> IF p \in S THEN now.sec ELSE lastOffence[p]]

(* Mutant: whoever relays a message that is refused is denied.             *)
TransformAndCheckMessageStrict(m, p) ==
    /\ Receive(m)
    /\ IF m \in malformed THEN BlacklistPid({p, Originator[m]})
       ELSE /\ UNCHANGED lastOffence
            /\ bannedUntil' = IF ValidateMessageByTimestamp(m) THEN bannedUntil
                              ELSE [bannedUntil EXCEPT ![p] = now.sec + BanDuration]

(* transformAndCheckMessage: a broadcast that is not readable is dropped   *)
(* and both the peer it came from and its originator are denied; another   *)
(* is processed if its timestamp is valid.                                 *)
TransformAndCheckMessage(m, p) ==
    \/ /\ m \in malformed
       /\ seen[m] = Never
       /\ seen' = [seen EXCEPT ![m] = now]
       /\ BlacklistPid({p, Originator[m]})
       /\ UNCHANGED <<now, timestamp, processed, first>>
    \/ /\ m \notin malformed
       /\ Receive(m)
       /\ UNCHANGED banVars

(* pubsubCallback, up to the dispatching (TopicRegistry).                  *)
ReceiveBroadcast(m, p) ==
    /\ TransformAndCheckMessage(m, p)
    /\ UNCHANGED <<directVars, setupVars, excused>>

PubsubForgets(m) ==
    /\ Forget(m)
    /\ UNCHANGED <<directVars, banVars, setupVars, excused>>
-----------------------------------------------------------------------------
(* RegisterDirectMessageProcessor, called when the messages handler is     *)
(* constructed, after the stream handler was installed.                    *)
RegisterDirectMessageProcessor ==
    /\ ~handlerSet /\ handlerSet' = TRUE
    /\ UNCHANGED <<vars, directVars, banVars, malformed, hasProcessor, excused>>

RegisterTopicProcessor ==
    /\ ~hasProcessor /\ hasProcessor' = TRUE
    /\ UNCHANGED <<vars, directVars, banVars, malformed, handlerSet, excused>>

(* checkSig: a message without a signature passes.                         *)
CheckSig(copy) == copy.signature # "wrong"

(* Mutant: the cache is asked before the originator is compared.           *)
AddressedByAnyone(m, p, copy) == handlerSet /\ copy.fields

(* The checks that come before the cache of seen messages.                 *)
Addressed(m, p, copy) == handlerSet /\ p = Originator[m] /\ copy.fields

Acceptable(m, copy) ==
    /\ CheckSig(copy) /\ copy.readable
    /\ Direct!ValidateMessageByTimestamp(m)
    /\ hasProcessor

(* Mutant: a message that is processed is not remembered.                  *)
ProcessReceivedDirectMessageAgain(m, p, copy) ==
    /\ Addressed(m, p, copy)
    /\ dSeen[m] = Never
    /\ Acceptable(m, copy)
    /\ dProcessed[m] <= 5
    /\ dProcessed' = [dProcessed EXCEPT ![m] = @ + 1]
    /\ dFirst' = [dFirst EXCEPT ![m] = now]
    /\ UNCHANGED <<vars, dTimestamp, dSeen, banVars, setupVars, excused>>

(* processReceivedDirectMessage: what is not addressed properly leaves no  *)
(* trace; the rest is remembered, and processed when signature, content,   *)
(* timestamp and topic are in order.                                       *)
ProcessReceivedDirectMessage(m, p, copy) ==
    /\ Addressed(m, p, copy)
    /\ dSeen[m] = Never
    /\ IF Acceptable(m, copy)
       THEN Direct!Receive(m)
       ELSE /\ dSeen' = [dSeen EXCEPT ![m] = now]
            /\ UNCHANGED <<now, dTimestamp, dProcessed, dFirst>>
    /\ excused' = IF handlerSet /\ p = Originator[m] /\ ~Acceptable(m, copy)
                  THEN excused \cup {m} ELSE excused
    /\ UNCHANGED <<timestamp, seen, processed, first, banVars, setupVars>>

SeenMessagesForget(m) ==
    /\ Direct!Forget(m)
    /\ UNCHANGED <<timestamp, seen, processed, first, banVars, setupVars, excused>>

ReceptionNext ==
    \/ Time
    \/ \E m \in Messages : PubsubForgets(m) \/ \E p \in Peers : ReceiveBroadcast(m, p)
    \/ \E m \in DirectMessages :
         \/ SeenMessagesForget(m)
         \/ \E p \in Peers, copy \in Copies : ProcessReceivedDirectMessage(m, p, copy)
    \/ RegisterDirectMessageProcessor
    \/ RegisterTopicProcessor

ReceptionSpec == ReceptionInit /\ [][ReceptionNext]_receptionVars
-----------------------------------------------------------------------------
(* A direct message that the node remembers but has never processed was    *)
(* spoilt by its own originator, which sent a copy that was broken or out  *)
(* of time, or came before its topic had a processor.  No other peer can   *)
(* have a message refused as seen, and what arrives before the handler is  *)
(* registered is not remembered (processReceivedDirectMessage).            *)
OnlyOriginatorsSpoil ==
    \A m \in DirectMessages : dSeen[m] # Never /\ dProcessed[m] = 0 => m \in excused

(* The cache of the direct sender is shorter than the time a timestamp is  *)
(* accepted for, so a direct message that keeps being delivered is         *)
(* processed again, but only once each time the cache has forgotten it     *)
(* (timeSeenMessages, validateMessageByTimestamp): with 120 s against      *)
(* 600 s and 20 s, six times at most.                                      *)
DirectReplaysAreBounded ==
    \A m \in DirectMessages :
      (dProcessed[m] - 1) * DirectCacheDuration < PastDuration + AdvanceDuration + 1

(* A peer is denied only because of a broadcast nobody could read that it  *)
(* relayed or originated, and no longer than the time of a ban after it    *)
(* (transformAndCheckMessage, blacklistPid).                               *)
DenialIsEarned ==
    \A p \in Peers : IsDenied(p) =>
      lastOffence[p] # -1 /\ now.sec < lastOffence[p] + BanDuration
=============================================================================
