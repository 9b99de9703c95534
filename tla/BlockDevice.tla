---------------------------- MODULE BlockDevice ----------------------------
(***************************************************************************)
(* What a mass storage device promises its host.  The host submits one     *)
(* request at a time; the device may store blocks of a write while the     *)
(* request is out, and answers.  It may fail whatever it likes, but an     *)
(* answer "pass" to a read carries the blocks of the medium the host knows *)
(* of, and to a write says that all of them are stored on that medium.  A  *)
(* change of medium is told by a failed request.                           *)
(***************************************************************************)
EXTENDS Naturals, Sequences

CONSTANTS Media, NoMedium, Blocks, Data, Requests, NoRequest

VARIABLES disk,   \* contents of every medium
          known,  \* the medium the host knows of
          req,    \* the request that is out
          answer  \* the answer to the last request, until the host takes it

bdVars == <<disk, known, req, answer>>

NoAnswer == [pass |-> FALSE, data |-> <<>>]

Init ==
    /\ disk \in [Media -> [Blocks -> Data]]
    /\ known \in Media \cup {NoMedium}
    /\ req = NoRequest
    /\ answer = NoAnswer

Submit ==
    /\ req = NoRequest
    /\ req' \in Requests
    /\ UNCHANGED <<disk, known, answer>>

Take == answer' = NoAnswer /\ UNCHANGED <<disk, known, req>>

\* Blocks of a pending write reach the medium one at a time.
Store ==
    /\ req # NoRequest
    /\ req.op = "write"
    /\ known \in Media
    /\ \E i \in 1..req.n :
         disk' = [disk EXCEPT ![known][req.a + i - 1] = req.data[i]]
    /\ UNCHANGED <<known, req, answer>>

Honest(a) ==
    a.pass =>
      /\ req.op = "read" =>
           /\ known \in Media
           /\ a.data = [i \in 1..req.n |-> disk[known][req.a + i - 1]]
      /\ req.op = "write" =>
           /\ known \in Media
           /\ \A i \in 1..req.n : disk[known][req.a + i - 1] = req.data[i]

Answer ==
    /\ req # NoRequest
    /\ req' = NoRequest
    /\ Honest(answer')
    /\ known' # known => ~answer'.pass
    /\ UNCHANGED disk

\* A reset, or a new connection: the request is forgotten and the host asks
\* again which medium there is.
Forget ==
    /\ req' = NoRequest
    /\ answer' = NoAnswer
    /\ known' \in Media \cup {NoMedium}
    /\ UNCHANGED disk

Next == Submit \/ Store \/ Answer \/ Take \/ Forget

Spec == Init /\ [][Next]_bdVars
=============================================================================
