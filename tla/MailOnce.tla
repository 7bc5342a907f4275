----------------------------- MODULE MailOnce -----------------------------
(***************************************************************************)
(* What the mail gate promises, without threads, locks, ledgers or a       *)
(* network.  A letter is one idempotency key.  At most one job is ever     *)
(* held for it, and that job goes through three stages, each at most once  *)
(* and never backwards: approved (a release is durably claimed), ordered   *)
(* (the one release request is on its way to LetterStream), mailed (put    *)
(* into production there).  Gate implements this module.                   *)
(***************************************************************************)
EXTENDS Naturals

CONSTANTS
    Letters,    \* the idempotency keys
    Codes       \* authcodes: each names one job held at LetterStream

VARIABLES
    held,       \* held[l]: the authcodes of the jobs created for letter l
    approved,   \* the authcodes whose release has been claimed
    orders,     \* orders[c]: how many release requests were sent for c
    mailed      \* the authcodes LetterStream has put into production

mailVars == <<held, approved, orders, mailed>>

AllHeld == UNION {held[l] : l \in Letters}

MailInit ==
    /\ held = [l \in Letters |-> {}]
    /\ approved = {}
    /\ orders = [c \in Codes |-> 0]
    /\ mailed = {}

\* LetterStream holds a first job for the letter.
Hold(l, c) ==
    /\ held[l] = {}
    /\ c \notin AllHeld
    /\ held' = [held EXCEPT ![l] = {c}]
    /\ UNCHANGED <<approved, orders, mailed>>

\* An authorize call claims the release of a held job.
Approve(c) ==
    /\ c \in AllHeld \ approved
    /\ approved' = approved \union {c}
    /\ UNCHANGED <<held, orders, mailed>>

\* The only release request there will ever be for an approved job.
Order(c) ==
    /\ c \in approved
    /\ orders[c] = 0
    /\ orders' = [orders EXCEPT ![c] = 1]
    /\ UNCHANGED <<held, approved, mailed>>

\* LetterStream prints and mails a job it was ordered to release.
Mail(c) ==
    /\ orders[c] = 1
    /\ c \notin mailed
    /\ mailed' = mailed \union {c}
    /\ UNCHANGED <<held, approved, orders>>

MailNext ==
    \E c \in Codes :
        \/ \E l \in Letters : Hold(l, c)
        \/ Approve(c)
        \/ Order(c)
        \/ Mail(c)

MailSpec == MailInit /\ [][MailNext]_mailVars
===========================================================================
