----------------------------- MODULE MCDispatch -----------------------------
(* Three tasks with credentials and one that declares none, a source with a   *)
(* credential of its own, and one callback of every other kind.              *)
EXTENDS Dispatch
MCKindOf ==
  [build |-> "task", test |-> "task", lint |-> "task", deploy |-> "task", registry |-> "source",
   layout |-> "generate", mirror |-> "resolver", importer |-> "migrator",
   reader |-> "translator", plugin |-> "chunk"]
MCSlots == DOMAIN MCKindOf
MCCredentials == {"GITHUB_TOKEN", "DAUKLE_TOKEN"}
MCEnvOf ==
  [s \in MCSlots |-> CASE s \in {"build", "mirror"} -> {"GITHUB_TOKEN"}
                       [] s \in {"deploy", "registry", "importer"} -> {"DAUKLE_TOKEN"}
                       [] s \in {"test", "reader", "plugin"} -> MCCredentials
                       [] OTHER -> {}]
=============================================================================
