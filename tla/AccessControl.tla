--------------------------- MODULE AccessControl ---------------------------
(***************************************************************************)
(* What pairing promises, without secrets, tables or processes: a phone    *)
(* asks, the operator decides each request once, and only phones the       *)
(* operator has let in, and not put out since, can use the desktop.        *)
(***************************************************************************)
CONSTANTS Requests, Phones

VARIABLES
  fresh,      \* requests nobody has made yet
  open,       \* <<request, phone>> that wait for a decision
  trusted,    \* phones let in and not put out since
  access      \* phones that hold a session the server accepts

vars == <<fresh, open, trusted, access>>

TypeOK ==
  /\ fresh \subseteq Requests
  /\ open \subseteq Requests \X Phones
  /\ trusted \subseteq Phones
  /\ access \subseteq trusted

Init ==
  /\ fresh = Requests
  /\ open = {}
  /\ trusted = {}
  /\ access = {}

Ask(r, p) ==
  /\ r \in fresh
  /\ fresh' = fresh \ {r}
  /\ open' = open \cup {<<r, p>>}
  /\ UNCHANGED <<trusted, access>>

\* The phone gets in, unless its session was granted too long ago.
Allow(r, p) ==
  /\ <<r, p>> \in open
  /\ open' = open \ {<<r, p>>}
  /\ trusted' = trusted \cup {p}
  /\ access' \in {access, access \cup {p}}
  /\ UNCHANGED fresh

\* Refused requests, and requests that are forgotten undecided.
Close(S) ==
  /\ open' = open \ S
  /\ UNCHANGED <<fresh, trusted, access>>

\* A trusted phone starts a session of its own accord.
Resume(p) ==
  /\ p \in trusted
  /\ access' = access \cup {p}
  /\ UNCHANGED <<fresh, open, trusted>>

PutOut(p) ==
  /\ trusted' = trusted \ {p}
  /\ access' = access \ {p}
  /\ UNCHANGED <<fresh, open>>

\* Sessions expire, or the operator disconnects a phone.
Lapse(S) ==
  /\ access' = access \ S
  /\ UNCHANGED <<fresh, open, trusted>>

Next ==
  \/ \E r \in Requests, p \in Phones : Ask(r, p) \/ Allow(r, p)
  \/ \E S \in SUBSET open : Close(S)
  \/ \E p \in Phones : Resume(p) \/ PutOut(p)
  \/ \E S \in SUBSET access : Lapse(S)

Spec == Init /\ [][Next]_vars
=============================================================================
