------------------------------- MODULE MCPanel -------------------------------
(* The requests, the console, the deployment, the session, the overview and *)
(* the tests of the panel in one instance: they share no state, so a        *)
(* behaviour is about one of them, the part, and the others stay where one  *)
(* initial state has them.                                                  *)
EXTENDS Admission, Console, Deploy, Session, Overview, Probes, TLC

VARIABLE part

panelVars == <<part, admissionVars, consoleVars, deployVars,
               sessionVars, overviewVars, probesVars>>

MCSubnets == {{2, 3}, {3, 4, 5}}

PanelInit ==
  /\ part \in {"requests", "console", "deploy", "session", "overview", "probes"}
  /\ AdmissionInit /\ ConsoleInit /\ DeployInit
  /\ SessionInit /\ OverviewInit /\ ProbesInit
  /\ part # "requests" => desk = "login"
  /\ part # "console" => kind = "region"
  /\ part # "deploy" => bindings = {} /\ screen = "dialog"
  /\ part # "session" => admin

(* The parts but the one named stay as they are. *)
Others(name) ==
  /\ part = name
  /\ UNCHANGED part
  /\ name # "requests" => UNCHANGED admissionVars
  /\ name # "console" => UNCHANGED consoleVars
  /\ name # "deploy" => UNCHANGED deployVars
  /\ name # "session" => UNCHANGED sessionVars
  /\ name # "overview" => UNCHANGED overviewVars
  /\ name # "probes" => UNCHANGED probesVars

(* The pages with the most to type get one event less. *)
Wide == {"user", "node", "host"}
FewerEvents == kind \in Wide => events' < MaxEvents

PanelNext ==
  \/ Others("requests") /\ AdmissionNext
  \/ Others("console") /\ ConsoleNext /\ FewerEvents
  \/ Others("deploy") /\ DeployNext
  \/ Others("session") /\ SessionNext
  \/ Others("overview") /\ OverviewNext
  \/ Others("probes") /\ ProbesNext

PanelSpec == PanelInit /\ [][PanelNext]_panelVars

(* The parts share their values, and each is a symmetric set of its own     *)
(* part.                                                                    *)
Symmetry == Permutations(Rows) \cup Permutations(Sites)

(* The type invariants of the parts. *)
PanelTypeOK == AdmissionTypeOK /\ ConsoleTypeOK /\ DeployTypeOK
               /\ SessionTypeOK /\ OverviewTypeOK /\ ProbesTypeOK
==============================================================================
