-------------------------------- MODULE Conf --------------------------------
(* internal/conf as the core uses it: typed settings that modules create     *)
(* with a default when they load, a value that was set being applied over    *)
(* it; what was set is stored as one value after every change.  Some of the  *)
(* modules may not load in a run, and defaults and types change with the     *)
(* program.  (SetFileOverrides has no caller.)                               *)
EXTENDS Integers

CONSTANTS
    Settings, Raws,
    Releases,       \* versions of the program
    Parses,         \* release -> setting -> the raw values of its type
    Default,        \* release -> setting -> its default
    MaxSets, MaxFails, MaxBoots     \* bounds of the model

NoValue == "never set"
ConfConstants ==
    /\ Parses \in [Releases -> [Settings -> SUBSET Raws]]
    /\ \A r \in Releases : \A n \in Settings : Default[r][n] \in Parses[r][n]
    /\ NoValue \notin Raws

VARIABLES
    release,
    settings,       \* created settings -> raw value
    stored,         \* what was set or loaded
    disk,           \* the row in the store
    sets, fails, boots,
    \* history: what a setting may be after a restart, NoValue if it was never
    \* set; the row could not be read when the process started
    promised, blind

vars == <<release, settings, stored, disk, sets, fails, boots, promised, blind>>

Nothing == [n \in {} |-> NoValue]
Stored(table, n) == IF n \in DOMAIN table THEN table[n] ELSE NoValue
With(table, n, raw) == [m \in DOMAIN table \cup {n} |-> IF m = n THEN raw ELSE table[m]]

\* A value that is not there, or does not parse, leaves the default.
create(n, raw, rel) == IF raw \in Parses[rel][n] THEN raw ELSE Default[rel][n]

\* Mutant: the dump of all settings is stored.
Dumped(table) == settings'

Persisted(table) == table

\* Set, and the OnChange of the core; the store may fail with the row written
\* or not.
Set(n, raw) ==
    /\ sets < MaxSets /\ sets' = sets + 1
    /\ n \in DOMAIN settings /\ raw \in Parses[release][n]
    /\ settings' = [settings EXCEPT ![n] = raw]
    /\ stored' = With(stored, n, raw)
    /\ \/ /\ disk' = Persisted(stored') /\ UNCHANGED fails
          /\ promised' = [m \in Settings |->
                IF m = n THEN {raw}
                ELSE promised[m] \cup (IF blind THEN {Stored(stored, m)} ELSE {})]
       \/ /\ fails < MaxFails /\ fails' = fails + 1
          /\ disk' \in {disk, Persisted(stored')}
          /\ promised' = [m \in Settings |->
                promised[m] \cup (IF m = n THEN {raw} ELSE {})
                            \cup (IF blind THEN {Stored(stored, m)} ELSE {})]
    /\ UNCHANGED <<release, boots, blind>>

\* The core starts, another release perhaps; of the modules these load.  That
\* the row could not be read is logged.
Start(rel, loaded, read) ==
    /\ boots < MaxBoots /\ boots' = boots + 1
    /\ IF read THEN UNCHANGED fails ELSE fails < MaxFails /\ fails' = fails + 1
    /\ release' = rel /\ blind' = ~read
    /\ stored' = IF read THEN disk ELSE Nothing
    /\ settings' = [n \in loaded |-> create(n, Stored(stored', n), rel)]
    /\ promised' = IF read THEN [n \in Settings |-> {Stored(disk, n)}] ELSE promised
    /\ UNCHANGED <<disk, sets>>

Init ==
    /\ release \in Releases
    /\ settings = [n \in Settings |-> Default[release][n]]
    /\ stored = Nothing /\ disk = Nothing
    /\ sets = 0 /\ fails = 0 /\ boots = 0
    /\ promised = [n \in Settings |-> {NoValue}] /\ blind = FALSE

Next ==
    \/ \E n \in Settings, raw \in Raws : Set(n, raw)
    \/ \E rel \in Releases, loaded \in SUBSET Settings, read \in BOOLEAN : Start(rel, loaded, read)

Spec == Init /\ [][Next]_vars

(* What was set stays set: also of modules that do not load in a run and     *)
(* through a release in which it does not parse; and what never was follows  *)
(* the default of the release.  A failed write leaves either value, and a    *)
(* process that could not read the row may lose it.                          *)
SettingsKept ==
    /\ \A n \in Settings : Stored(disk, n) \in promised[n]
    /\ ~blind => \A n \in DOMAIN settings :
                    \E raw \in promised[n] : settings[n] = create(n, raw, release)
=============================================================================
