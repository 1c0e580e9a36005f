----------------------------- MODULE Subscription -----------------------------
(***************************************************************************)
(* What the billing of one tenant promises as long as its requests do not  *)
(* overlap: one subscription, tied to one of Stripe's or to none, that     *)
(* begins with a trial or a checkout and then follows the checkouts, what  *)
(* Stripe says of its own and, unless it is active, payments that fell     *)
(* through.  Nothing else that is asked or reported changes it.            *)
(***************************************************************************)
CONSTANTS
  Request,  \* records [kind, id, to]: what was asked or reported, and the status it leads to
  None      \* Stripe's id of a subscription that is none of Stripe's

VARIABLES
  sent,     \* the requests made so far
  status,   \* of the tenant's subscription; "none" before it has one
  ext,      \* Stripe's id of it
  raced     \* two requests have overlapped: nothing more is promised
vars == <<sent, status, ext, raced>>

Init ==
  /\ sent = {}
  /\ status = "none" /\ ext = None
  /\ raced = FALSE

Trial(r) ==
  /\ r.kind = "login" /\ status = "none"
  /\ status' = r.to
  /\ UNCHANGED ext

Activate(r) ==
  /\ r.kind = "checkout"
  /\ status' = r.to /\ ext' = r.id

Follow(r) ==
  /\ r.kind \in {"failed", "deleted", "updated"}
  /\ status # "none" /\ ext = r.id
  /\ status' = r.to
  /\ UNCHANGED ext

\* A payment that fell through takes nothing from who has paid.
Lapse(r) ==
  /\ r.kind = "canceled" /\ status \notin {"none", "active"}
  /\ status' = r.to
  /\ UNCHANGED ext

Next ==
  \/ \E r \in Request : sent' = sent \union {r} /\ UNCHANGED <<status, ext, raced>>
  \/ UNCHANGED <<sent, raced>> /\ \E r \in sent : Trial(r) \/ Activate(r) \/ Follow(r) \/ Lapse(r)
  \/ raced'

Spec == Init /\ [][Next]_vars
=============================================================================
