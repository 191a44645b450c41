----------------------------- MODULE Is12Session -----------------------------
(***************************************************************************)
(* The websocket sessions of the IS-12 server (src/src/nmos/is12.cpp):     *)
(* subscriptions, commands and notifications of one property of a monitor. *)
(* The thread of a connection handles its messages one after the other;    *)
(* each command takes m_mutex for itself and the answer to all commands of *)
(* a message is written after the last one, without the lock.  The feed    *)
(* changes the property and writes to its subscribers one after the other, *)
(* all under the lock; a write to a client that does not read ends with    *)
(* the timeout of the transport, and what was written is lost.             *)
(*                                                                         *)
(* A value of the property is abstracted to its revision.  The transport   *)
(* keeps the order of what is written to a connection, so what a client    *)
(* knows in the end is what was written to it last.                        *)
(***************************************************************************)
EXTENDS Integers

CONSTANTS Clients,
          SlowClients,  \* the clients that may not read what is written to them
          MaxChanges    \* bound: changes of the property

ASSUME SessionAssumption == MaxChanges \in Nat /\ SlowClients \subseteq Clients

Nothing == -1

VARIABLES
    value,      \* the revision of the property
    subs,       \* m_mSubscriptions: the clients subscribed to the monitor
    at,         \* per connection: "closed", "idle", "answer", "confirm"
    reply,      \* per connection: the value in the answer under construction
    known,      \* per client: the value written to it last, or Nothing
    toNotify,   \* the subscribers that Notify has yet to write to, under m_mutex
    \* history, read by properties only
    announced,  \* the newest revision that was notified
    behind      \* per client: its last answer was older than what it knew, or
                \* a write to it has timed out

vars == <<value, subs, at, reply, known, toNotify, announced, behind>>

Init ==
    /\ value = 0
    /\ subs = {}
    /\ at = [c \in Clients |-> "closed"]
    /\ reply = [c \in Clients |-> Nothing]
    /\ known = [c \in Clients |-> Nothing]
    /\ toNotify = {}
    /\ announced = 0
    /\ behind = [c \in Clients |-> FALSE]

(* m_mutex is held from step to step only by the feed, in Notify.          *)
MutexFree == toNotify = {}

----------------------------------------------------------------------------
WsReady(c) ==
    /\ at[c] = "closed" /\ MutexFree
    /\ at' = [at EXCEPT ![c] = "idle"]
    /\ subs' = subs \ {c}
    /\ UNCHANGED <<value, reply, known, toNotify, announced, behind>>

WsClose_KeepsEntry(c) ==
    /\ at[c] = "idle" /\ MutexFree
    /\ at' = [at EXCEPT ![c] = "closed"]
    /\ known' = [known EXCEPT ![c] = Nothing]
    /\ behind' = [behind EXCEPT ![c] = FALSE]
    /\ UNCHANGED <<value, subs, reply, toNotify, announced>>

WsClose(c) ==
    /\ at[c] = "idle" /\ MutexFree
    /\ at' = [at EXCEPT ![c] = "closed"]
    /\ subs' = subs \ {c}
    /\ known' = [known EXCEPT ![c] = Nothing]
    /\ behind' = [behind EXCEPT ![c] = FALSE]
    /\ UNCHANGED <<value, reply, toNotify, announced>>

(* HandleMessage: a subscription replaces the one before.  The client asks *)
(* for the value again after it has subscribed.                            *)
Subscribe(c) ==
    /\ at[c] = "idle" /\ MutexFree
    /\ \E on \in BOOLEAN : subs' = IF on THEN subs \cup {c} ELSE subs \ {c}
    /\ at' = [at EXCEPT ![c] = "confirm"]
    /\ known' = [known EXCEPT ![c] = Nothing]
    /\ behind' = [behind EXCEPT ![c] = FALSE]
    /\ UNCHANGED <<value, reply, toNotify, announced>>

Confirm(c) ==
    /\ at[c] = "confirm"
    /\ at' = [at EXCEPT ![c] = "idle"]
    /\ UNCHANGED <<value, subs, reply, known, toNotify, announced, behind>>

(* HandleMessage: a command, the first of its message or a further one.    *)
InCommands(c) == at[c] \in {"idle", "answer"}

GetProperty(c) ==
    /\ InCommands(c) /\ MutexFree
    /\ reply' = [reply EXCEPT ![c] = value]
    /\ at' = [at EXCEPT ![c] = "answer"]
    /\ UNCHANGED <<value, subs, known, toNotify, announced, behind>>

(* InvokeMethod: the reset of the counters, transition counts and messages *)
(* notifies nobody.                                                        *)
InvokeReset(c) ==
    /\ InCommands(c) /\ MutexFree
    /\ value < MaxChanges /\ value' = value + 1
    /\ at' = [at EXCEPT ![c] = "answer"]
    /\ UNCHANGED <<subs, reply, known, toNotify, announced, behind>>

(* The answer is written after m_mutex was released.                       *)
SendAnswer(c) ==
    /\ at[c] = "answer"
    /\ at' = [at EXCEPT ![c] = "idle"]
    /\ IF reply[c] = Nothing
         THEN UNCHANGED <<known, behind>>
         ELSE /\ known' = [known EXCEPT ![c] = reply[c]]
              /\ behind' = [behind EXCEPT ![c] = \/ reply[c] < known[c]
                                                 \/ @ /\ reply[c] < announced]
    /\ reply' = [reply EXCEPT ![c] = Nothing]
    /\ UNCHANGED <<value, subs, toNotify, announced>>

(* WsData: a command that throws ends its message.  What the commands      *)
(* before it did stays done, the client only gets an error.                *)
CommandThrows(c) ==
    /\ at[c] = "answer"
    /\ at' = [at EXCEPT ![c] = "idle"]
    /\ reply' = [reply EXCEPT ![c] = Nothing]
    /\ UNCHANGED <<value, subs, known, toNotify, announced, behind>>

----------------------------------------------------------------------------
(* Notify: the value goes to every subscriber, one after the other.        *)
Notify_KeepsFirst(v) ==
    /\ toNotify' = IF subs = {} THEN {} ELSE subs \ {CHOOSE c \in subs : TRUE}
    /\ announced' = v

Notify(v) ==
    /\ toNotify' = subs
    /\ announced' = v

(* The feed changes the property (UpdateDomain, RecomputeOverall,          *)
(* SetSyncSource) and notifies under the same lock.                        *)
UpdateProperty ==
    /\ MutexFree
    /\ value < MaxChanges
    /\ value' = value + 1
    /\ Notify(value')
    /\ UNCHANGED <<subs, at, reply, known, behind>>

(* SendTo: the client reads ...                                            *)
NotifyWrite(c) ==
    /\ c \in toNotify
    /\ toNotify' = toNotify \ {c}
    /\ known' = [known EXCEPT ![c] = value]
    /\ behind' = [behind EXCEPT ![c] = FALSE]
    /\ UNCHANGED <<value, subs, at, reply, announced>>

(* ... or does not, until the write times out.                             *)
NotifyTimeout(c) ==
    /\ c \in toNotify \cap SlowClients
    /\ toNotify' = toNotify \ {c}
    /\ behind' = [behind EXCEPT ![c] = TRUE]
    /\ UNCHANGED <<value, subs, at, reply, known, announced>>

Feed ==
    \/ UpdateProperty
    \/ \E c \in Clients : NotifyWrite(c) \/ NotifyTimeout(c)

Session(c) ==
    \/ WsReady(c) \/ WsClose(c) \/ Subscribe(c) \/ GetProperty(c) \/ InvokeReset(c)
    \/ Confirm(c) \/ SendAnswer(c) \/ CommandThrows(c)

Next == Feed \/ \E c \in Clients : Session(c)

Spec == Init /\ [][Next]_vars

----------------------------------------------------------------------------
TypeOK ==
    /\ value \in 0..MaxChanges /\ announced \in 0..MaxChanges
    /\ subs \subseteq Clients /\ toNotify \subseteq Clients
    /\ at \in [Clients -> {"closed", "idle", "answer", "confirm"}]
    /\ reply \in [Clients -> -1..MaxChanges]
    /\ known \in [Clients -> -1..MaxChanges]
    /\ behind \in [Clients -> BOOLEAN]

(* Nothing is written to a connection that was closed, however the feed,   *)
(* the close and a subscription of the same connection interleave: Notify  *)
(* runs under the lock that WsClose erases the entry with.                 *)
ClosedNotWritten ==
    \A c \in Clients : at[c] = "closed" => known[c] = Nothing /\ c \notin toNotify

(* A subscriber that has heard of the property at all knows the newest     *)
(* revision that was announced, also when it subscribed or asked between   *)
(* two changes, unless Notify has not come to it yet, its last answer was  *)
(* overtaken by a notification or it did not read one.                     *)
SubscriberCurrent ==
    \A c \in subs \ toNotify : known[c] # Nothing /\ ~behind[c] => known[c] >= announced
==============================================================================
