----------------------------- MODULE ProviderFiles -----------------------------
(***************************************************************************)
(* The provider commands of provider_cmd.c and the files that              *)
(* fs_xml_generator.c keeps of each provider: the gateway FreeSWITCH reads, *)
(* the backup its predecessor is renamed to, and the mapping a frontend     *)
(* reads.  Files are named after the uuid of the row, which is never given  *)
(* again; the commands name the provider.                                   *)
(*                                                                         *)
(* A file is the id of its provider; what it says is left out, and so is    *)
(* what FreeSWITCH makes of a rescan.  "provider delete" unlinks the        *)
(* gateway below another directory than the one it was written to, so it    *)
(* takes away the mapping only.                                             *)
(***************************************************************************)
EXTENDS Naturals, FiniteSets

CONSTANTS
    Processes,     \* command-line processes, and the daemon as it starts
    Names,         \* what an operator calls a provider
    MaxProviders,  \* bound: rows ever inserted
    MaxFailures,   \* bound: failed statements and files that cannot be opened
    MaxCrashes     \* bound: processes stopped in the middle of a command

ASSUME BoundsAssumption == /\ Names # {}
                           /\ MaxProviders \in Nat
                           /\ MaxFailures \in Nat
                           /\ MaxCrashes \in Nat

Ids == 1..MaxProviders

VARIABLES
    providers,  \* table providers: row id |-> name, which is UNIQUE
    next,       \* the id of the next row
    gateways,   \* ids with a gateway file in sip_profiles
    backups,    \* ids with a gateway file renamed to .bak
    mappings,   \* ids with a mapping in ROUTER_CONFIG_DIR/providers
    pc,         \* per process: where its command is
    name,       \* per process: the name it was given
    at,         \* per process: the id at hand, or 0
    todo,       \* per process: rows of its result not generated yet
    failures, crashes,
    alone       \* history: no command has started while another one ran

tables == <<providers, next>>
files == <<gateways, backups, mappings>>
vars == <<providers, next, gateways, backups, mappings, pc, name, at, todo,
          failures, crashes, alone>>

Steps == {"idle", "insert", "select", "unlink", "delrow", "query", "rename",
          "write", "map"}

TypeOK == /\ next \in 1..(MaxProviders + 1)
          /\ DOMAIN providers \subseteq 1..(next - 1)
          /\ providers \in [DOMAIN providers -> Names]
          /\ gateways \subseteq Ids /\ backups \subseteq Ids
          /\ mappings \subseteq Ids
          /\ pc \in [Processes -> Steps]
          /\ name \in [Processes -> Names]
          /\ at \in [Processes -> 0..(next - 1)]
          /\ \A p \in Processes :
                pc[p] \in {"unlink", "delrow", "write", "map"} => at[p] # 0
          /\ todo \in [Processes -> SUBSET (1..(next - 1))]
          /\ failures \in 0..MaxFailures /\ crashes \in 0..MaxCrashes
          /\ alone \in BOOLEAN

NoName == CHOOSE n \in Names : TRUE

Init == /\ providers = [i \in {} |-> NoName] /\ next = 1
        /\ gateways = {} /\ backups = {} /\ mappings = {}
        /\ pc = [p \in Processes |-> "idle"]
        /\ name = [p \in Processes |-> NoName]
        /\ at = [p \in Processes |-> 0]
        /\ todo = [p \in Processes |-> {}]
        /\ failures = 0 /\ crashes = 0
        /\ alone = TRUE

-----------------------------------------------------------------------------
(* Slips one could make in the helpers below, each with the helper's name  *)
(* first.  No specification uses them: put in place of the helper, each    *)
(* breaks one of the properties at the end of this module.                 *)

\* A row whose id was never generated.
Inserted_NoId(n) ==
    [i \in DOMAIN providers \cup {0} |-> IF i = 0 THEN n ELSE providers[i]]

\* A DELETE whose parameter is the uuid, not the name.
Deleted_None(n) == providers

\* A mapping unlinked, like the gateway, below another directory.
Unmapped_Elsewhere(i) == mappings

\* An old gateway that is deleted instead of renamed.
Renamed_Removed(i) == gateways' = gateways \ {i} /\ UNCHANGED backups

-----------------------------------------------------------------------------
(* Helpers *)

Goto(p, step) == pc' = [pc EXCEPT ![p] = step]

\* A statement, or an fopen, that fails.
Fails == failures < MaxFailures /\ failures' = failures + 1

\* The command is over and its process forgets what it had at hand.
Done(p) == /\ Goto(p, "idle")
           /\ name' = [name EXCEPT ![p] = NoName]
           /\ at' = [at EXCEPT ![p] = 0]
           /\ todo' = [todo EXCEPT ![p] = {}]

\* Process p, at its prompt, starts a command.
Start(p, step) ==
    /\ pc[p] = "idle"
    /\ Goto(p, step)
    /\ alone' = (alone /\ \A q \in Processes : pc[q] = "idle")
    /\ UNCHANGED <<tables, files, at, todo, failures, crashes>>

\* The rows with a name, and the table after an INSERT and after a DELETE.
Called(n) == {i \in DOMAIN providers : providers[i] = n}

Inserted(n) ==
    [i \in DOMAIN providers \cup {next} |-> IF i = next THEN n ELSE providers[i]]

Deleted(n) == [i \in DOMAIN providers \ Called(n) |-> providers[i]]

\* The gateway file is renamed, over an older backup, if it exists.
Renamed(i) == /\ gateways' = gateways \ {i}
              /\ backups' = IF i \in gateways THEN backups \cup {i} ELSE backups

\* The mappings without that of i.
Unmapped(i) == mappings \ {i}

-----------------------------------------------------------------------------
(* provider add *)

\* At the bound on rows an INSERT is refused like one of a name that exists.
AddProvider(p, n) == Start(p, "insert") /\ name' = [name EXCEPT ![p] = n]

InsertProvider(p) ==
    /\ pc[p] = "insert"
    /\ \/ /\ Called(name[p]) = {} /\ next <= MaxProviders
          /\ providers' = Inserted(name[p]) /\ next' = next + 1
          /\ Goto(p, "rename") /\ todo' = [todo EXCEPT ![p] = {next}]
          /\ UNCHANGED <<name, at, failures>>
       \/ /\ Called(name[p]) # {} \/ next > MaxProviders
          /\ Done(p) /\ UNCHANGED <<tables, failures>>
       \/ Fails /\ Done(p) /\ UNCHANGED tables
    /\ UNCHANGED <<files, crashes, alone>>

-----------------------------------------------------------------------------
(* provider delete *)

DeleteProvider(p, n) == Start(p, "select") /\ name' = [name EXCEPT ![p] = n]

SelectProvider(p) ==
    /\ pc[p] = "select"
    /\ \/ /\ \E i \in Called(name[p]) : at' = [at EXCEPT ![p] = i]
          /\ Goto(p, "unlink")
          /\ UNCHANGED <<name, todo, failures>>
       \/ Called(name[p]) = {} /\ Done(p) /\ UNCHANGED failures
       \/ Fails /\ Done(p)
    /\ UNCHANGED <<tables, files, crashes, alone>>

\* fs_remove_provider_config
UnlinkFiles(p) ==
    /\ pc[p] = "unlink"
    /\ mappings' = Unmapped(at[p])
    /\ Goto(p, "delrow")
    /\ UNCHANGED <<tables, gateways, backups, name, at, todo, failures, crashes,
                   alone>>

\* The row is deleted by its name, whatever row has that name by now.
DeleteRow(p) ==
    /\ pc[p] = "delrow"
    /\ \/ providers' = Deleted(name[p]) /\ UNCHANGED failures
       \/ Fails /\ UNCHANGED providers
    /\ Done(p)
    /\ UNCHANGED <<next, files, crashes, alone>>

-----------------------------------------------------------------------------
(* provider reload, also run by the daemon as it starts, and the generator *)
(* it shares with add                                                      *)

ReloadProviders(p) == Start(p, "query") /\ UNCHANGED name

QueryProviders(p) ==
    /\ pc[p] = "query"
    /\ \/ /\ DOMAIN providers # {}
          /\ todo' = [todo EXCEPT ![p] = DOMAIN providers]
          /\ Goto(p, "rename")
          /\ UNCHANGED <<name, at, failures>>
       \/ DOMAIN providers = {} /\ Done(p) /\ UNCHANGED failures
       \/ Fails /\ Done(p)
    /\ UNCHANGED <<tables, files, crashes, alone>>

RenameGateway(p, i) ==
    /\ pc[p] = "rename" /\ i \in todo[p]
    /\ todo' = [todo EXCEPT ![p] = @ \ {i}]
    /\ at' = [at EXCEPT ![p] = i]
    /\ Renamed(i)
    /\ Goto(p, "write")
    /\ UNCHANGED <<tables, mappings, name, failures, crashes, alone>>

\* If the file cannot be opened the row is given up; nobody looks at that.
WriteGateway(p) ==
    /\ pc[p] = "write"
    /\ \/ /\ gateways' = gateways \cup {at[p]}
          /\ Goto(p, "map") /\ UNCHANGED failures
       \/ Fails /\ Goto(p, "rename") /\ UNCHANGED gateways
    /\ UNCHANGED <<tables, backups, mappings, name, at, todo, crashes, alone>>

WriteMapping(p) ==
    /\ pc[p] = "map"
    /\ \/ mappings' = mappings \cup {at[p]} /\ UNCHANGED failures
       \/ Fails /\ UNCHANGED mappings
    /\ Goto(p, "rename")
    /\ UNCHANGED <<tables, gateways, backups, name, at, todo, crashes, alone>>

EndRows(p) == /\ pc[p] = "rename" /\ todo[p] = {}
              /\ Done(p)
              /\ UNCHANGED <<tables, files, failures, crashes, alone>>

\* The process is stopped; what it has written stays.
Crash(p) == /\ pc[p] # "idle"
            /\ crashes < MaxCrashes /\ crashes' = crashes + 1
            /\ Done(p)
            /\ UNCHANGED <<tables, files, failures, alone>>

-----------------------------------------------------------------------------

Next == \E p \in Processes :
           \/ \E n \in Names : AddProvider(p, n) \/ DeleteProvider(p, n)
           \/ InsertProvider(p) \/ SelectProvider(p) \/ UnlinkFiles(p)
           \/ DeleteRow(p) \/ ReloadProviders(p) \/ QueryProviders(p)
           \/ \E i \in Ids : RenameGateway(p, i)
           \/ WriteGateway(p) \/ WriteMapping(p) \/ EndRows(p) \/ Crash(p)

Spec == Init /\ [][Next]_vars

-----------------------------------------------------------------------------
(* Properties *)

Quiet == \A p \in Processes : pc[p] = "idle"

\* As long as commands have not overlapped, every mapping a frontend finds is
\* of a provider of the table, wherever a command failed or was stopped:
\* "provider delete" removes the mapping before the row, and the generator
\* writes it after the row.
MappingsHaveProviders == alone => mappings \subseteq DOMAIN providers

\* When no command is running and nothing has failed, every provider of the
\* table has its gateway and its mapping, however the commands were
\* interleaved, those that delete by name and those that rename what another
\* has just written included.
ProvidersHaveFiles ==
    Quiet /\ failures = 0 /\ crashes = 0 =>
        DOMAIN providers \subseteq gateways \cap mappings

\* The gateway a mapping stands for is there, or at least its last version is,
\* as a backup, at every moment, in the middle of commands, between two of
\* them, and after any that failed or was stopped.
MappingsHaveGateways == mappings \subseteq gateways \cup backups
=============================================================================
