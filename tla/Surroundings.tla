------------------------------ MODULE Surroundings ------------------------------
(***************************************************************************)
(* The places where Vitna meets the programs and people around it: the        *)
(* terminal (Terminal), starting and finding the daemon (Launch), the door of *)
(* vitna app (FrontDoor), the files its page is sent (PageReads), the window's  *)
(* view of a session (ClientSession), a file of the workspace (WorkspaceWalk),  *)
(* a sandboxed command (Sandbox) and its processes (ProcessTree), the system's   *)
(* credential store (Keyring), and a receipt that is checked (ReceiptCheck).     *)
(* They share nothing but the machine, so a behaviour is one of one place,      *)
(* chosen when it starts, and the others rest.                               *)
(***************************************************************************)
EXTENDS Terminal, Launch, FrontDoor, PageReads, ClientSession,
        WorkspaceWalk, Sandbox, ProcessTree, Keyring, ReceiptCheck

VARIABLE visited

\* What is seen and asked by people, and what the machine does for Vitna.
peopleVars == <<terminalVars, receiptVars, launchVars, doorVars, tailVars, routineVars, sessionVars>>
machineVars == <<walkVars, sandboxVars, processVars, keyringVars, checkVars>>
vars == <<peopleVars, machineVars, visited>>

\* A place that rests is in one of the states it may begin in.
Init ==
  /\ visited \in {"terminal", "launch", "door", "ledger", "routines", "window",
                  "file", "sandbox", "processes", "keyring", "receipt"}
  /\ TerminalInit /\ LaunchInit /\ DoorInit /\ PageInit /\ SessionInit
  /\ IF visited = "file" THEN WalkInit ELSE WalkStart({}, Call("read", FALSE))
  /\ IF visited = "sandbox" THEN SandboxInit ELSE SandboxStart("other", {}, "file", {}, "no")
  /\ ProcessInit /\ KeyringInit /\ CheckInit

AtTheTerminal ==
  /\ visited = "terminal"
  /\ TerminalNext
  /\ UNCHANGED <<launchVars, doorVars, tailVars, routineVars, sessionVars>>

AtTheEndpoint ==
  /\ visited = "launch"
  /\ LaunchNext
  /\ UNCHANGED <<terminalVars, receiptVars, doorVars, tailVars, routineVars, sessionVars>>

AtTheDoor ==
  /\ visited = "door"
  /\ DoorNext
  /\ UNCHANGED <<terminalVars, receiptVars, launchVars, tailVars, routineVars, sessionVars>>

OnThePage ==
  /\ \/ visited = "ledger" /\ LedgerStep /\ UNCHANGED routineVars
     \/ visited = "routines" /\ RoutineStep /\ UNCHANGED tailVars
  /\ UNCHANGED <<terminalVars, receiptVars, launchVars, doorVars, sessionVars>>

InTheWindow ==
  /\ visited = "window"
  /\ SessionNext
  /\ UNCHANGED <<terminalVars, receiptVars, launchVars, doorVars, tailVars, routineVars>>

WithPeople ==
  /\ InTheWindow \/ AtTheTerminal \/ AtTheEndpoint \/ AtTheDoor \/ OnThePage
  /\ UNCHANGED machineVars

InTheWorkspace ==
  /\ \/ visited = "file" /\ WalkNext /\ UNCHANGED sandboxVars
     \/ visited = "sandbox" /\ SandboxNext /\ UNCHANGED walkVars
  /\ UNCHANGED <<processVars, keyringVars, checkVars>>

InTheSystem ==
  /\ \/ visited = "processes" /\ ProcessNext /\ UNCHANGED <<keyringVars, checkVars>>
     \/ visited = "keyring" /\ KeyringNext /\ UNCHANGED <<processVars, checkVars>>
     \/ visited = "receipt" /\ CheckNext /\ UNCHANGED <<processVars, keyringVars>>
  /\ UNCHANGED <<walkVars, sandboxVars>>

WithTheMachine ==
  /\ InTheWorkspace \/ InTheSystem
  /\ UNCHANGED peopleVars

Next ==
  /\ WithPeople \/ WithTheMachine
  /\ UNCHANGED visited

Spec == Init /\ [][Next]_vars
================================================================================
