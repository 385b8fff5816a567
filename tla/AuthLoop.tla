------------------------------ MODULE AuthLoop ------------------------------
(***************************************************************************)
(* What clientAuthenticate promises, in the words of its comment: "during  *)
(* the authentication phase the client first attempts the "none" mccmod    *)
(* then any untried mccmods suggested by the server".  One step is one     *)
(* whole attempt of a mccmod; the packets of the attempt, the signers and  *)
(* the retries of a decorator are not seen.                                *)
(***************************************************************************)
CONSTANTS
    Names,          \* the mccmod names a server may list
    Nil             \* no mccmod, no list

VARIABLES
    configured,     \* the mccmods the client is configured with
    attempt,        \* the mccmod being attempted, or Nil
    failed,         \* the mccmods that have failed
    offered,        \* the last list the server sent, or Nil
    verdict,        \* how the last attempt ended, or Nil
    outcome         \* "running", or how the authentication ended

vars == <<configured, attempt, failed, offered, verdict, outcome>>

Init ==
    /\ configured \in SUBSET Names
    /\ attempt = Nil /\ failed = {} /\ offered = Nil /\ verdict = Nil
    /\ outcome = "running"

Ends(how) ==
    /\ outcome = "running"
    /\ outcome' = how /\ attempt' = Nil
    /\ UNCHANGED <<configured, failed, offered>>

\* Only the success of an attempt authenticates.
Authenticated ==
    /\ attempt # Nil
    /\ verdict' = "success"
    /\ Ends("authenticated")

\* A step of the transport or a callback fails.
Fails == Ends("error") /\ UNCHANGED verdict

\* The first attempt is "none".
Begin ==
    /\ outcome = "running" /\ attempt = Nil /\ failed = {} /\ offered = Nil
    /\ attempt' = "none"
    /\ UNCHANGED <<configured, failed, offered, verdict, outcome>>

\* The attempt ends without a success: it has failed unless the success was
\* partial, the server may have sent a list, and the client goes on with a
\* configured mccmod of the list that has not failed, or gives up when
\* there is none.
GoesOn(partial, names) ==
    /\ outcome = "running" /\ attempt # Nil
    /\ verdict' = IF partial THEN "partial" ELSE "failure"
    /\ failed' = IF partial THEN failed ELSE failed \cup {attempt}
    /\ offered' = IF names = Nil THEN offered ELSE names
    /\ LET untried == IF offered' = Nil THEN {}
                      ELSE (configured \cap offered') \ failed'
       IN  IF untried = {}
           THEN outcome' = "unable" /\ attempt' = Nil
           ELSE outcome' = outcome /\ attempt' \in untried
    /\ UNCHANGED configured

Next ==
    \/ Begin
    \/ \E partial \in BOOLEAN, names \in SUBSET Names \cup {Nil} :
           GoesOn(partial, names)
    \/ Authenticated
    \/ Fails

Spec == Init /\ [][Next]_vars

=============================================================================
