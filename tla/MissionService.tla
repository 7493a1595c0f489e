--------------------------- MODULE MissionService ---------------------------
(***************************************************************************)
(* What an operator may expect of the whole system, without gateway,       *)
(* datagrams, transfers or revisions: a station asks for a mission, and    *)
(* gets an answer.  If the answer is ACCEPTED, the vehicle holds the       *)
(* mission that was asked for.                                             *)
(***************************************************************************)
CONSTANTS
  Stations,  \* ground control stations
  Plans,     \* missions a station may ask for
  None       \* no mission

VARIABLES
  asked,   \* what each station has asked for and is waiting for
  answer,  \* the last answer each station got
  held     \* the mission of the vehicle

service_vars == <<asked, answer, held>>

Refusals == {"DENIED", "ERROR"}

ServiceInit ==
  /\ asked = [s \in Stations |-> None]
  /\ answer = [s \in Stations |-> "NONE"]
  /\ held = None

Ask(s) ==
  /\ asked[s] = None
  /\ \E plan \in Plans : asked' = [asked EXCEPT ![s] = plan]
  /\ answer' = [answer EXCEPT ![s] = "NONE"]
  /\ UNCHANGED held

\* The vehicle only takes a mission somebody waits for.
Take(s) ==
  /\ asked[s] # None /\ held' = asked[s]
  /\ UNCHANGED <<asked, answer>>

Accept(s) ==
  /\ asked[s] # None /\ held = asked[s]
  /\ asked' = [asked EXCEPT ![s] = None]
  /\ answer' = [answer EXCEPT ![s] = "ACCEPTED"]
  /\ UNCHANGED held

Refuse(s) ==
  /\ asked[s] # None
  /\ asked' = [asked EXCEPT ![s] = None]
  /\ \E result \in Refusals : answer' = [answer EXCEPT ![s] = result]
  /\ UNCHANGED held

\* The mission is erased on request.
Erase == held' = None /\ UNCHANGED <<asked, answer>>

ServiceNext ==
  \/ \E s \in Stations : Ask(s) \/ Take(s) \/ Accept(s) \/ Refuse(s)
  \/ Erase

ServiceSpec == ServiceInit /\ [][ServiceNext]_service_vars

\* Whoever asks is answered.
EveryoneIsAnswered == \A s \in Stations : asked[s] # None ~> asked[s] = None

=============================================================================
