---------------------------- MODULE UddEndpoint ----------------------------
(***************************************************************************)
(* A bulk endpoint of the USB device driver (udphs_device.c) and the one   *)
(* job that may be registered on it.  An endpoint is a record:             *)
(*                                                                         *)
(*   job   what runs on it: a transfer, or a callback that waits for the   *)
(*         end of a stall ("none" when udd_ep_job_t.busy is false);        *)
(*   halt  "off" before the endpoint is allocated, "no", "requested" when  *)
(*         the stall waits for the packets still in the banks, "yes";      *)
(*   bank  the packets that the DMA has put in the banks of an IN endpoint *)
(*         and that the host has not read yet.                             *)
(*                                                                         *)
(* A job is named after its callback, the jobs that wait for the end of a  *)
(* stall are in the constant Waiting.                                      *)
(***************************************************************************)
EXTENDS Naturals, Sequences

CONSTANTS Transfers,  \* jobs started by udd_ep_run
          Waiting     \* jobs registered by udd_ep_wait_stall_clear

ASSUME JobsAssumption == "none" \notin Transfers \cup Waiting

Halts == {"off", "no", "requested", "yes"}

Endpoints(packets, banks) ==
    [job : Transfers \cup Waiting \cup {"none"}, halt : Halts,
     bank : UNION {[1..n -> packets] : n \in 0..banks}]

Closed == [job |-> "none", halt |-> "off", bank |-> <<>>]
Opened == [job |-> "none", halt |-> "no", bank |-> <<>>]

\* udd_ep_is_halted
Halted(e) == e.halt \in {"requested", "yes"}

\* The conditions under which udd_ep_run accepts a job.
CanRun(e) == e.halt = "no" /\ e.job = "none"

Run(e, job) == [e EXCEPT !.job = job]

\* The end of a transfer, as its callback finds the endpoint.
Done(e) == [e EXCEPT !.job = "none"]

\* udd_ep_set_halt: not over a job, and after the packets in the banks.
SetHalt(e) ==
    IF e.halt # "no" \/ e.job # "none" THEN e
    ELSE [e EXCEPT !.halt = IF e.bank = <<>> THEN "yes" ELSE "requested"]

\* udd_ep_wait_stall_clear on a halted endpoint; refused over another job.
WaitClear(e, job) ==
    IF Halted(e) /\ e.job = "none" THEN Run(e, job) ELSE e

\* The two calls by which the class drivers start a transfer or, on a halted
\* endpoint, leave it to the end of the stall.
RunOrWait(e, job, wait) ==
    IF CanRun(e) THEN Run(e, job) ELSE WaitClear(e, wait)

\* udd_ep_clear_halt without the callback of the job that waited for it.
Unhalted(e) == IF Halted(e) THEN [e EXCEPT !.halt = "no", !.job = "none"] ELSE e

\* udd_ep_abort without the callback of the job: the banks are killed.
Aborted(e) == [e EXCEPT !.job = "none", !.bank = <<>>]
=============================================================================
