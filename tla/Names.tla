-------------------------------- MODULE Names --------------------------------
(***************************************************************************)
(* The names a run takes in the cluster (internal/worker/naming.go): those *)
(* of its namespace, its Jobs, its host and its labels, made from the id   *)
(* of the run and the name of the plugin, which is what a client sent.     *)
(*                                                                         *)
(* A name is a sequence of characters.  The limits and the fixed heads are *)
(* constants, so that small instances reach every limit.                   *)
(***************************************************************************)
EXTENDS Naturals, Sequences, FiniteSets, FiniteSetsExt

CONSTANTS Runs,
          Ids,                          \* ids of runs
          Plugins,                      \* ids of plugins
          Lower,                        \* ToLower: from characters to characters
          Dash, Letters,                \* "-"; a to z and 0 to 9
          X, Unknown,                   \* "x" and "unknown"
          MaxLabel, PrefixLen,          \* maxDNSLabelLen, runIDPrefixLen
          NamespaceHead,                \* "plugin-test-"
          JobHeads                      \* "seeder-", "smoke-", "integration-"

Allowed == Letters \cup {Dash}
Chars == DOMAIN Lower

Legal(s) == /\ Len(s) \in 1..MaxLabel
            /\ \A i \in DOMAIN s : s[i] \in Allowed
            /\ s[1] # Dash /\ s[Len(s)] # Dash

\* An id is that of a row, a UUID.
ASSUME NamesAssumption ==
    /\ Dash \notin Letters
    /\ Allowed \subseteq Chars /\ \A c \in Allowed : Lower[c] = c
    /\ Ids \subseteq Seq({c \in Chars : c # Dash => Lower[c] \in Letters})
    /\ Plugins \subseteq Seq(Chars)
    /\ {MaxLabel, PrefixLen} \subseteq Nat \ {0}
    /\ X \in Seq(Letters) /\ Len(X) \in 1..MaxLabel
    /\ Unknown \in Seq(Letters) /\ Len(Unknown) \in 1..PrefixLen
    /\ \A h \in {NamespaceHead} \cup {JobHeads[j] : j \in DOMAIN JobHeads} :
          /\ h \in Seq(Allowed) /\ Len(h) > 0
          /\ h[1] # Dash /\ h[Len(h)] = Dash
    /\ Len(NamespaceHead) + 1 + PrefixLen < MaxLabel
    /\ \A j \in DOMAIN JobHeads : Len(JobHeads[j]) + PrefixLen <= MaxLabel

VARIABLE names                          \* of the runs that have some
vars == <<names>>

-----------------------------------------------------------------------------
(* Strings *)

ToLower(s) == [i \in DOMAIN s |-> Lower[s[i]]]

\* The characters of s that are in S: the k-th is where they have become k.
Only(s, S) ==
    LET kept == {i \in DOMAIN s : s[i] \in S}
        upTo(i) == Cardinality({k \in kept : k <= i})
    IN  [k \in 1..Cardinality(kept) |-> s[CHOOSE i \in kept : upTo(i) = k]]

Truncate(s, n) == IF Len(s) > n THEN SubSeq(s, 1, n) ELSE s
Solid(s) == {i \in DOMAIN s : s[i] # Dash}
TrimRight(s) == IF Solid(s) = {} THEN <<>> ELSE SubSeq(s, 1, Max(Solid(s)))
Trim(s) == IF Solid(s) = {} THEN <<>> ELSE SubSeq(s, Min(Solid(s)), Max(Solid(s)))

-----------------------------------------------------------------------------
(* Names *)

\* Mutant of DnsLabel: trimmed before it is cut.
DnsLabelCutLast(s) ==
    LET label == Truncate(Trim(Only(ToLower(s), Allowed)), MaxLabel)
    IN  IF label = <<>> THEN X ELSE label

DnsLabel(s) ==
    LET label == Trim(Truncate(Only(ToLower(s), Allowed), MaxLabel))
    IN  IF label = <<>> THEN X ELSE label

RunIDPrefix(id) ==
    LET clean == ToLower(Only(id, Chars \ {Dash}))
    IN  IF clean = <<>> THEN Unknown ELSE Truncate(clean, PrefixLen)

\* Mutant of MaxPluginLen: the dash after the plugin's name is not counted.
MaxPluginLenOff == MaxLabel - Len(NamespaceHead) - PrefixLen

MaxPluginLen == MaxLabel - (Len(NamespaceHead) + 1) - PrefixLen

\* namespaceNameWithPlugin
NamespaceName(id, plugin) ==
    DnsLabel(NamespaceHead \o TrimRight(Truncate(DnsLabel(plugin), MaxPluginLen))
             \o <<Dash>> \o RunIDPrefix(id))

\* seederJobName, smokeJobName, integrationJobName
JobName(j, id) == DnsLabel(JobHeads[j] \o RunIDPrefix(id))

\* What a run with that id and plugin is called; the host in front of the
\* domain and the Jobs are named after the prefix alone.
NamesOf(id, plugin) ==
    [prefix |-> RunIDPrefix(id),
     namespace |-> NamespaceName(id, plugin),
     job |-> [j \in DOMAIN JobHeads |-> JobName(j, id)],
     pluginLabel |-> DnsLabel(plugin)]

-----------------------------------------------------------------------------

Init == names = [r \in {} |-> <<>>]

\* A worker takes up a run; a rerun names it the same.
Handle(r, id, plugin) ==
    /\ r \notin DOMAIN names
    /\ names' = [s \in DOMAIN names \cup {r} |->
                    IF s = r THEN NamesOf(id, plugin) ELSE names[s]]

Next == \E r \in Runs, id \in Ids, plugin \in Plugins : Handle(r, id, plugin)

Spec == Init /\ [][Next]_vars

-----------------------------------------------------------------------------
(* Properties *)

\* Whatever a client calls its plugin, and however long, Kubernetes takes the
\* names; and the prefix of the run's id comes through whole: two runs have a
\* namespace or a Job's name in common only if their ids begin alike.
OwnNames ==
    \A r \in DOMAIN names :
        /\ Legal(names[r].namespace) /\ Legal(names[r].pluginLabel)
        /\ \A j \in DOMAIN JobHeads : Legal(names[r].job[j])
        /\ \A s \in DOMAIN names :
              \/ names[r].namespace = names[s].namespace
              \/ \E j, k \in DOMAIN JobHeads : names[r].job[j] = names[s].job[k]
              => names[r].prefix = names[s].prefix
=============================================================================
