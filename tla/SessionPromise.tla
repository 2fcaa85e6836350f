--------------------------- MODULE SessionPromise ---------------------------
(***************************************************************************)
(* What the daemon promises about a vault session, in terms of one         *)
(* deadline.  An authorisation (Touch ID plus the `open` request) starts a *)
(* session with a deadline; a secret is served only at or before it; a use *)
(* of the session may push the deadline out to the grace window after that *)
(* use and never pulls it in; once the session is revoked nothing is       *)
(* served until the next authorisation.                                    *)
(*                                                                         *)
(* The detailed module keeps two timestamps and two durations instead      *)
(* (sessionStart/sessionTTL and lastUsed/graceTTL, internal/daemon/        *)
(* daemon.go); DaemonSession shows that they implement this deadline.      *)
(***************************************************************************)
EXTENDS Integers

VARIABLES
  now,         \* the clock
  authorised,  \* is there a session
  deadline,    \* the last instant at which the session serves
  grace,       \* how far a use pushes the deadline
  outcome      \* the answer the last step gave, "none" if it gave none

vars == <<now, authorised, deadline, grace, outcome>>

Outcomes == {"none", "opened", "extended", "served", "refused", "revoked"}

Init ==
  /\ now \in Nat
  /\ authorised = FALSE
  /\ deadline \in Int
  /\ grace \in Int
  /\ outcome = "none"

(* Time only moves forward, and a step that answers nobody grants nothing. *)
Tick ==
  /\ now' \in Nat
  /\ now' >= now
  /\ outcome' = "none"
  /\ UNCHANGED <<authorised, deadline, grace>>

(* A successful `open`: the only step that creates a session. *)
Authorise ==
  /\ authorised' = TRUE
  /\ deadline' \in Int
  /\ grace' \in Int
  /\ outcome' = "opened"
  /\ UNCHANGED now

(* A successful `extend`: a new deadline for a session that is still live. *)
Extend ==
  /\ authorised
  /\ now <= deadline
  /\ deadline' \in Int
  /\ deadline' > now
  /\ grace' \in Int
  /\ outcome' = "extended"
  /\ UNCHANGED <<now, authorised>>

(* A request answered from the open vault. *)
Serve ==
  /\ authorised
  /\ now <= deadline
  /\ \/ deadline' = deadline
     \/ /\ now + grace > deadline
        /\ deadline' = now + grace
  /\ outcome' = "served"
  /\ UNCHANGED <<now, authorised, grace>>

(* A refusal never touches a live session. *)
Refuse ==
  /\ outcome' = "refused"
  /\ \/ UNCHANGED <<authorised, deadline>>
     \/ /\ now > deadline
        /\ authorised' = FALSE
  /\ UNCHANGED <<now, grace>>

(* Lock, hijack denial, expiry sweep, stop, crash or restart. *)
Revoke ==
  /\ authorised' = FALSE
  /\ outcome' \in {"none", "revoked"}
  /\ UNCHANGED now

Next == Tick \/ Authorise \/ Extend \/ Serve \/ Refuse \/ Revoke

Spec == Init /\ [][Next]_vars
=============================================================================
