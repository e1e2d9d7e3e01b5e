----------------------------- MODULE AlertSpecs -----------------------------
(***************************************************************************)
(* What the modules of the server and of the client share about alerts:    *)
(* the part of AlertSpec (server/store.go) that decides anything, and the  *)
(* reports a client makes about an alert (clientEvent).                    *)
(***************************************************************************)
EXTENDS Naturals, FiniteSets

CONSTANTS Alerts,
          RequireAck,  \* people must confirm they have read it
          Timed,       \* display_seconds > 0: closes itself
          FullScreen   \* display = "fullscreen", the others are cards

\* validateSpec clears display_seconds of an alert that needs a confirmation.
ASSUME AlertSpecsAssumption ==
  /\ IsFiniteSet(Alerts)
  /\ RequireAck \subseteq Alerts
  /\ Timed \subseteq Alerts \ RequireAck
  /\ FullScreen \subseteq Alerts

\* The events that end a window without a confirmation.
Closings == {"dismissed", "timeout", "recalled"}
Kinds    == Closings \cup {"displayed", "acknowledged"}

\* A report is an alert and what happened to it.
Reports  == Alerts \X Kinds
=============================================================================
