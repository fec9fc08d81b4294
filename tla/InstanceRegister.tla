-------------------------- MODULE InstanceRegister --------------------------
(***************************************************************************)
(* The instance register: one file of KEY=VALUE lines that says which box  *)
(* every instance name stands for (instances/registry.py).  It is read     *)
(* whole at the start of every command, and either all of it is good or    *)
(* the command refuses: nothing in it is skipped.                          *)
(*                                                                         *)
(* A line that is neither blank nor a comment is <<name, field, value>> for*)
(* NAME_FIELD=value, or Junk.  The names are told from the fields by the   *)
(* "_" after them, which a legal name never holds.                         *)
(***************************************************************************)
EXTENDS Sequences

CONSTANTS
    LegalNames,  \* what NAME_RE matches
    Header,      \* the name part of the line VPATH_INSTANCES=...
    Junk,        \* a line that is not KEY=VALUE
    NoFile       \* there is no register at the path

ServerKinds == {"server-nuc", "server-cloud-vm"}
Kinds == ServerKinds \cup {"standalone"}
Lifecycles == {"live", "planned"}

Required(kind) ==
    IF kind \in ServerKinds THEN {"SSH_HOST", "SSH_USER", "ENV_PROFILE", "CHECKOUT"}
                            ELSE {"APP_ROOT", "HOME"}

-----------------------------------------------------------------------------
\* parse_lines raises on a line it cannot read and on a key that comes twice.
Readable(lines) ==
    /\ \A i \in DOMAIN lines : lines[i] # Junk
    /\ \A i, j \in DOMAIN lines :
          lines[i][1] = lines[j][1] /\ lines[i][2] = lines[j][2] => i = j

\* The fields of one name.
Fields(lines, name) ==
    LET of == {i \in DOMAIN lines : lines[i][1] = name}
    IN  [f \in {lines[i][2] : i \in of} |->
            lines[CHOOSE i \in of : lines[i][2] = f][3]]

\* fields.get(f, default), and the properties of Instance, whose default is "".
Get(fields, f, default) == IF f \in DOMAIN fields THEN fields[f] ELSE default
Field(fields, f) == Get(fields, f, "")

Kind(fields) == Field(fields, "KIND")
Lifecycle(fields) == Get(fields, "LIFECYCLE", "live")
IsServer(fields) == Kind(fields) \in ServerKinds
IsPlanned(fields) == Lifecycle(fields) = "planned"

\* _instance_from: a planned instance may leave out its coordinates.
WellDeclared(fields) ==
    /\ Kind(fields) \in Kinds
    /\ Lifecycle(fields) \in Lifecycles
    /\ ~IsPlanned(fields) => \A f \in Required(Kind(fields)) : Field(fields, f) # ""

\* The names VPATH_INSTANCES declares, in its order.
Names(lines) == Get(Fields(lines, Header), "VPATH_INSTANCES", << >>)

\* load raises unless every name of the register is legal, declared once and well
\* declared: one bad instance fails the commands for all of them.
Loads(file) ==
    /\ file # NoFile
    /\ Readable(file)
    /\ Names(file) # << >>
    /\ \A i \in DOMAIN Names(file) :
          /\ Names(file)[i] \in LegalNames
          /\ \A j \in DOMAIN Names(file) : Names(file)[i] = Names(file)[j] => i = j
          /\ WellDeclared(Fields(file, Names(file)[i]))

\* The Registry load returns.  Registry.get raises on a name outside its domain,
\* whatever lines the file has for it.
Registry(file) ==
    [n \in {Names(file)[i] : i \in DOMAIN Names(file)} |-> Fields(file, n)]
=============================================================================
