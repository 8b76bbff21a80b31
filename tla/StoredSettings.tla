--------------------------- MODULE StoredSettings ---------------------------
(***************************************************************************)
(* The lists that are kept in triumph4php.ini, each entry a group with a   *)
(* number in its name: the commands of RunConsoleFeatureClass, the         *)
(* connections of SqlBrowserFeatureClass, the breakpoints of               *)
(* DebuggerFeatureClass, the projects of ProjectFeatureClass and the web   *)
(* browsers of EnvironmentClass.  Storing a list removes the groups that   *)
(* are there, or does not, and writes one group for each entry; the config *)
(* object holds the groups until they are flushed to the file.             *)
(*                                                                         *)
(* A behaviour is about one of the lists.  The config object keeps its     *)
(* groups sorted by their names: from the eleventh entry on, that is not   *)
(* the order of their numbers.                                             *)
(***************************************************************************)
EXTENDS Integers, SequencesExt, FiniteSetsExt, NumberOrder

CONSTANTS
    Entries,        \* what an entry may be
    MaxEntries,     \* bound on the length of a list
    SingleDigits,   \* how many numbers have one digit: ten
    NameRank,       \* where the name of a group comes among the sorted names, by its number
    DefaultBrowsers \* AddDefaults

GroupNumbers == 0 .. MaxEntries - 1

\* Names that end in one digit are sorted as their numbers are.
ASSUME StoredSettingsAssumption ==
    /\ MaxEntries \in Nat /\ SingleDigits \in Nat
    /\ NameRank \in [GroupNumbers -> Nat]
    /\ \A j, k \in GroupNumbers : j # k => NameRank[j] # NameRank[k]
    /\ \A j, k \in GroupNumbers : j < k /\ k < SingleDigits => NameRank[j] < NameRank[k]
    /\ DefaultBrowsers \in Seq(Entries) /\ Len(DefaultBrowsers) <= MaxEntries

Lists == {"commands", "connections", "breakpoints", "projects", "browsers"}

VARIABLES
    list,           \* the list the behaviour is about
    entries,        \* the list in memory
    groups,         \* the groups of the config object
    iniFile,        \* the groups in the file
    stored,         \* the list last stored
    running         \* the program runs

settingsVars == <<list, entries, groups, iniFile, stored, running>>

GroupsOf(numbers) == [numbers -> Entries]
Groups == UNION {GroupsOf(numbers) : numbers \in SUBSET GroupNumbers}
SomeEntries == UNION {[1 .. n -> Entries] : n \in 0 .. MaxEntries}

SettingsTypeOK ==
    /\ list \in Lists
    /\ entries \in Seq(Entries) /\ Len(entries) <= MaxEntries
    /\ stored \in Seq(Entries) /\ Len(stored) <= MaxEntries
    /\ groups \in Groups /\ iniFile \in Groups
    /\ running \in BOOLEAN

SettingsInit ==
    /\ list \in Lists
    /\ entries = IF list = "browsers" THEN DefaultBrowsers ELSE << >>
    /\ stored = << >>
    /\ groups = << >> /\ iniFile = << >>
    /\ running = TRUE

-----------------------------------------------------------------------------
Ranks(gs) == {NameRank[k] : k \in DOMAIN gs}
NumberWithRank(rank) == CHOOSE k \in GroupNumbers : NameRank[k] = rank

\* Deleting a group while the groups are enumerated by their position makes the
\* enumeration skip the one that takes its place.
DeletedWhileEnumerated(gs) ==
    {k \in DOMAIN gs : Cardinality(Below(Ranks(gs), NameRank[k])) % 2 = 0}

\* The groups after some are removed and the entries are written.
GroupsAfter(gs, removed, es) ==
    LET written == 0 .. Len(es) - 1
    IN  [k \in (DOMAIN gs \ removed) \cup written |-> IF k \in written THEN es[k + 1] ELSE gs[k]]

PersistCommands(gs, es) == GroupsAfter(gs, DeletedWhileEnumerated(gs), es)

\* The names of the groups are collected before these are deleted.
SavePreferences(gs, es) == GroupsAfter(gs, DOMAIN gs, es)

\* A mutant: breakpoints are deleted as they are enumerated.
StoreWhileEnumerated(gs, es) == GroupsAfter(gs, DeletedWhileEnumerated(gs), es)

ConfigStore(gs, es) == GroupsAfter(gs, DOMAIN gs, es)
OnPreferencesSaved(gs, es) == GroupsAfter(gs, DOMAIN gs, es)

\* Nothing is deleted.
SaveToConfig(gs, es) == GroupsAfter(gs, {}, es)

Store(gs, es) ==
    CASE list = "commands" -> PersistCommands(gs, es)
      [] list = "connections" -> SavePreferences(gs, es)
      [] list = "breakpoints" -> ConfigStore(gs, es)
      [] list = "projects" -> OnPreferencesSaved(gs, es)
      [] list = "browsers" -> SaveToConfig(gs, es)

\* The groups that are there are read, in the order of their names.
LoadPreferences(gs) ==
    [i \in DOMAIN Ascending(Ranks(gs)) |-> gs[NumberWithRank(Ascending(Ranks(gs))[i])]]

\* The groups are counted, and those with the numbers so far are read.
LoadProjects(gs) ==
    [i \in 1 .. Min({k \in 0 .. Cardinality(DOMAIN gs) : k \notin DOMAIN gs}) |-> gs[i - 1]]

\* The lists that may be read.  The default browsers stay if there is no group at
\* all beside those of the browsers either; the virtual hosts have some.
EntriesOf(gs) ==
    CASE list = "projects" -> {LoadProjects(gs)}
      [] list = "browsers" /\ DOMAIN gs = {} -> {DefaultBrowsers, << >>}
      [] OTHER -> {LoadPreferences(gs)}

-----------------------------------------------------------------------------
\* The user's list is stored and flushed by one handler: PersistCommands,
\* SavePreferences, ConfigStore, or the handlers of EVENT_APP_PREFERENCES_SAVED
\* and the Flush after them.
StoreEntries(es) ==
    /\ running
    /\ entries' = es /\ stored' = es
    /\ groups' = Store(groups, es)
    /\ iniFile' = groups'
    /\ UNCHANGED <<list, running>>

\* The Preferences or the Projects dialog stores the other lists again.
StoreAgain ==
    /\ list \notin {"commands", "connections"}
    /\ StoreEntries(entries)

\* RemoveBreakpointAtLine does not store the list.
ForgetBreakpoint ==
    /\ running
    /\ list = "breakpoints"
    /\ \E i \in DOMAIN entries : entries' = RemoveAt(entries, i)
    /\ UNCHANGED <<list, groups, iniFile, stored, running>>

\* The program ends, with the config object flushed by its destructor or not.
ProgramEnds ==
    /\ running
    /\ running' = FALSE
    /\ iniFile' \in {groups, iniFile}
    /\ UNCHANGED <<list, entries, groups, stored>>

ProgramStarts ==
    /\ ~running
    /\ running' = TRUE
    /\ groups' = iniFile
    /\ entries' \in EntriesOf(iniFile)
    /\ UNCHANGED <<list, iniFile, stored>>

SettingsNext ==
    \/ \E es \in SomeEntries : StoreEntries(es)
    \/ StoreAgain
    \/ ForgetBreakpoint
    \/ ProgramEnds
    \/ ProgramStarts

SettingsSpec == SettingsInit /\ [][SettingsNext]_settingsVars

-----------------------------------------------------------------------------
\* Each of the entries es is there in read, as often.
AreAllIn(es, read) ==
    \E place \in Injection(DOMAIN es, DOMAIN read) : \A i \in DOMAIN es : read[place[i]] = es[i]

\* What was stored last is there when the program starts again, and nothing else for
\* the lists whose groups are all removed first.  The projects come back in their
\* order, the others if no group has a number of two digits.
StoredEntriesComeBack ==
    [][~running /\ running' =>
           /\ AreAllIn(stored, entries')
           /\ list \notin {"commands", "browsers"} => Len(entries') = Len(stored)
           /\ list = "projects" \/ (\A k \in DOMAIN iniFile : k < SingleDigits)
                  => IsPrefix(stored, entries')]_settingsVars

\* The order of a list, however long it is, is that in which it was stored.
OrderComesBack == [][~running /\ running' => IsPrefix(stored, entries')]_settingsVars

\* "delete any previous commands that are in the config": what the user removed
\* from the commands does not come back.
RemovedCommandsStayRemoved ==
    [][~running /\ running' /\ list = "commands" => Len(entries') <= Len(stored)]_settingsVars
=============================================================================
