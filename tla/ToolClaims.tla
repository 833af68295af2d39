------------------------------ MODULE ToolClaims ------------------------------
(***************************************************************************)
(* How the replay sessions of one process share the caller's FunctionTool  *)
(* objects (adapters/openai_agents_replay.py, OpenAIAgentsReplaySession).  *)
(* A session reads the handlers of its tools when it is built, and         *)
(* `execute' claims the tools in the table _TOOL_CLAIMS, puts a canary in  *)
(* the place of each handler, calls the application, puts the handlers it  *)
(* has read back, and gives the claims up.  Sessions may run in several    *)
(* threads or tasks: only the claim and the release are under the lock,    *)
(* the handlers are read, replaced and put back one after the other.       *)
(***************************************************************************)
EXTENDS Naturals

CONSTANTS
    Session,         \* the replay sessions of the process
    Tool,            \* the FunctionTool objects of the caller
    Handler,         \* the handlers the caller binds to its tools
    Free,            \* the owner of an unclaimed tool
    Callers          \* whether the caller is careful, in the behaviours to look at

ASSUME OwnersAssumption ==
    /\ Session \cap Handler = {}
    /\ Free \notin Session
ASSUME CallersAssumption == Callers \subseteq BOOLEAN

VARIABLES
    careful,     \* the caller builds sessions and rebinds tools at quiet times
                 \* only (rigid)
    uses,        \* the tools a session is given: _original_tools
    pc,          \* where a session is
    todo,        \* tools the session has still to treat in its current loop
    saved,       \* what it read: _original_handlers
    claim,       \* _TOOL_CLAIMS
    handler,     \* tool.on_invoke_tool: a caller's handler, or the canary of
                 \* a session, named by the session
    bound,       \* history: the handler the caller itself bound last
    rebound      \* history: tools the caller rebound since a canary was put

claimVars == <<careful, uses, pc, todo, saved, claim, handler, bound, rebound>>

\* execute is between its claim and the release of it.
Active(s) == pc[s] \in {"installing", "calling", "restoring", "releasing"}

\* The session has read handlers and has not replaced any yet.
Remembers(s) == pc[s] \in {"reading", "built"}

-------------------------------------------------------------------------------
\* __init__: the session is given its tools.  A careful caller does that only
\* while no session has a claim.
Build(s) ==
    /\ pc[s] = "none"
    /\ careful => \A t \in Tool : claim[t] = Free
    /\ \E tools \in SUBSET Tool :
          /\ uses' = [uses EXCEPT ![s] = tools]
          /\ todo' = [todo EXCEPT ![s] = tools]
    /\ pc' = [pc EXCEPT ![s] = "reading"]
    /\ UNCHANGED <<saved, claim, handler, bound, rebound>>

\* ... and reads their handlers.
Read(s, t) ==
    /\ pc[s] = "reading"
    /\ t \in todo[s]
    /\ saved' = [saved EXCEPT ![s][t] = handler[t]]
    /\ todo' = [todo EXCEPT ![s] = @ \ {t}]
    /\ UNCHANGED <<uses, pc, claim, handler, bound, rebound>>

Built(s) ==
    /\ pc[s] = "reading"
    /\ todo[s] = {}
    /\ pc' = [pc EXCEPT ![s] = "built"]
    /\ UNCHANGED <<uses, todo, saved, claim, handler, bound, rebound>>

\* execute is called; a careful caller does not do so while it is still
\* building another session.
Called(s) ==
    /\ pc[s] = "built"
    /\ careful => \A q \in Session : pc[q] # "reading"

\* Some tool of the session is claimed by another one.
Contended(s) == \E t \in uses[s] : claim[t] \notin {Free, s}

\* A mutant of Claim: the claims are written without looking at the table.
ClaimUnchecked(s) ==
    /\ Called(s)
    /\ claim' = [t \in Tool |-> IF t \in uses[s] THEN s ELSE claim[t]]
    /\ pc' = [pc EXCEPT ![s] = "installing"]
    /\ todo' = [todo EXCEPT ![s] = uses[s]]
    /\ UNCHANGED <<uses, saved, handler, bound, rebound>>

\* execute: all the claims or none, under the lock.
Claim(s) ==
    /\ Called(s)
    /\ ~Contended(s)
    /\ claim' = [t \in Tool |-> IF t \in uses[s] THEN s ELSE claim[t]]
    /\ pc' = [pc EXCEPT ![s] = "installing"]
    /\ todo' = [todo EXCEPT ![s] = uses[s]]
    /\ UNCHANGED <<uses, saved, handler, bound, rebound>>

\* A refused session has used up its only execution.
Refuse(s) ==
    /\ Called(s)
    /\ Contended(s)
    /\ pc' = [pc EXCEPT ![s] = "over"]
    /\ UNCHANGED <<uses, todo, saved, claim, handler, bound, rebound>>

Install(s, t) ==
    /\ pc[s] = "installing"
    /\ t \in todo[s]
    /\ handler' = [handler EXCEPT ![t] = s]
    /\ todo' = [todo EXCEPT ![s] = @ \ {t}]
    /\ rebound' = rebound \ {t}
    /\ UNCHANGED <<uses, pc, saved, claim, bound>>

CallApplication(s) ==
    /\ pc[s] = "installing"
    /\ todo[s] = {}
    /\ pc' = [pc EXCEPT ![s] = "calling"]
    /\ UNCHANGED <<uses, todo, saved, claim, handler, bound, rebound>>

\* The application returns or raises: the finally clause runs either way.
ApplicationEnds(s) ==
    /\ pc[s] = "calling"
    /\ pc' = [pc EXCEPT ![s] = "restoring"]
    /\ todo' = [todo EXCEPT ![s] = uses[s]]
    /\ UNCHANGED <<uses, saved, claim, handler, bound, rebound>>

\* A mutant of Restore: the handler is put back over whatever is there.
RestoreBlindly(s, t) ==
    /\ pc[s] = "restoring"
    /\ t \in todo[s]
    /\ handler' = [handler EXCEPT ![t] = saved[s][t]]
    /\ todo' = [todo EXCEPT ![s] = @ \ {t}]
    /\ UNCHANGED <<uses, pc, saved, claim, bound, rebound>>

\* A handler is put back only if the session's own canary is still there.
Restore(s, t) ==
    /\ pc[s] = "restoring"
    /\ t \in todo[s]
    /\ handler' = [handler EXCEPT ![t] = IF @ = s THEN saved[s][t] ELSE @]
    /\ todo' = [todo EXCEPT ![s] = @ \ {t}]
    /\ UNCHANGED <<uses, pc, saved, claim, bound, rebound>>

\* A mutant of Restored: the session returns without giving its claims up.
RestoredOnly(s) ==
    /\ pc[s] = "restoring"
    /\ todo[s] = {}
    /\ pc' = [pc EXCEPT ![s] = "over"]
    /\ UNCHANGED <<uses, todo, saved, claim, handler, bound, rebound>>

Restored(s) ==
    /\ pc[s] = "restoring"
    /\ todo[s] = {}
    /\ pc' = [pc EXCEPT ![s] = "releasing"]
    /\ UNCHANGED <<uses, todo, saved, claim, handler, bound, rebound>>

\* Under the lock: the session's claims are deleted.
Release(s) ==
    /\ pc[s] = "releasing"
    /\ claim' = [t \in Tool |-> IF t \in uses[s] /\ claim[t] = s
                                THEN Free ELSE claim[t]]
    /\ pc' = [pc EXCEPT ![s] = "over"]
    /\ UNCHANGED <<uses, todo, saved, handler, bound, rebound>>

\* The caller, or the application while it is called, binds a handler of its
\* own.  A careful caller does not do so to a tool whose handler a session
\* remembers or is replacing.
Rebind(t, h) ==
    /\ careful =>
          \A s \in Session :
              t \in uses[s] => ~Remembers(s) /\ pc[s] # "installing"
    /\ handler' = [handler EXCEPT ![t] = h]
    /\ bound' = [bound EXCEPT ![t] = h]
    /\ rebound' = rebound \union {t}
    /\ UNCHANGED <<uses, pc, todo, saved, claim>>

-------------------------------------------------------------------------------
ClaimsInit ==
    /\ careful \in Callers
    /\ uses = [s \in Session |-> {}]
    /\ pc = [s \in Session |-> "none"]
    /\ todo = [s \in Session |-> {}]
    /\ bound \in [Tool -> Handler]
    /\ handler = bound
    /\ saved = [s \in Session |-> bound]
    /\ claim = [t \in Tool |-> Free]
    /\ rebound = {}

SessionStep(s) ==
    \/ Build(s) \/ Built(s) \/ Claim(s) \/ Refuse(s)
    \/ CallApplication(s) \/ ApplicationEnds(s) \/ Restored(s) \/ Release(s)
    \/ \E t \in Tool : Read(s, t) \/ Install(s, t) \/ Restore(s, t)

ClaimsNext ==
    /\ \/ \E s \in Session : SessionStep(s)
       \/ \E t \in Tool, h \in Handler : Rebind(t, h)
    /\ UNCHANGED careful

ClaimsSpec == ClaimsInit /\ [][ClaimsNext]_claimVars

-------------------------------------------------------------------------------
(* Properties.                                                               *)

\* Types: a handler is the caller's, or some session's canary.
ClaimsTypeOK ==
    /\ careful \in Callers
    /\ uses \in [Session -> SUBSET Tool]
    /\ pc \in [Session -> {"none", "reading", "built", "installing", "calling",
                          "restoring", "releasing", "over"}]
    /\ todo \in [Session -> SUBSET Tool]
    /\ saved \in [Session -> [Tool -> Handler \union Session]]
    /\ claim \in [Tool -> Session \union {Free}]
    /\ handler \in [Tool -> Handler \union Session]
    /\ bound \in [Tool -> Handler]
    /\ rebound \subseteq Tool

\* The table of claims names exactly the sessions inside execute: two of them
\* never share a tool, a refused session leaves no claim, and none is left
\* behind (test_concurrent_sessions_cannot_share_and_restore_one_original_tool).
ClaimsAreExact ==
    \A s \in Session, t \in Tool :
        claim[t] = s <=> Active(s) /\ t \in uses[s]

\* While a session calls the application, each of its tools carries this very
\* session's canary, whatever other sessions do, so that a call of an original
\* tool is denied and counted by the session it happens in; only the caller
\* itself can have bound something else since.
CanariesHold ==
    \A s \in Session, t \in Tool :
        pc[s] = "calling" /\ t \in uses[s] => handler[t] = s \/ t \in rebound

\* A tool no session has claimed has the handler the caller gave it
\* (docs/application-replay.md: "Original handlers are temporarily replaced
\* with measured canaries for the duration of the callback and restored in
\* `finally`").
RestoredWhenFree ==
    \A t \in Tool : claim[t] = Free => handler[t] = bound[t]

\* ... which is so for a caller that leaves the sessions and the tools alone
\* while another session is being built or is executing.
RestoredIfCareful == careful => RestoredWhenFree
===============================================================================
