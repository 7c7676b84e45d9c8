------------------------------- MODULE Config -------------------------------
(***************************************************************************)
(* Option parsing: cfgParse() of config/parse.c and the checks that        *)
(* cfgLoadUpdateOption() of config/load.c makes afterwards.                *)
(*                                                                         *)
(* A setting is one option, one key and a list of values.  The command     *)
(* line is read first, then the environment, then up to four sections of   *)
(* the configuration file; the first place that has an option wins.  The   *)
(* grouped options (pg1-path, repo2-type, ...) are then laid out by index, *)
(* the options resolved in the order of their dependencies, and the group  *)
(* indexes that hold nothing but defaults removed.                         *)
(*                                                                         *)
(* The generated rules are the constant Rule.  A value is a string of a    *)
(* small set; a name that does not exist, a value that does not convert    *)
(* and an empty value are all the value Bad.  Every error ends the parse.  *)
(***************************************************************************)
EXTENDS Integers, Sequences, FiniteSets, SequencesExt, FiniteSetsExt, TLC

CONSTANTS
    Rule,          \* Rule[o]: the rules of option o for the command
    ResolveOrder,  \* optionResolveOrder, a sequence of all options
    KeyMax,        \* CFG_OPTION_KEY_MAX
    Bad,           \* a value that no option accepts
    NoValue,
    MaxSettings    \* bound on the settings of one invocation

Options == DOMAIN Rule

\* The place of an option value: an option and its key (1 when not in a group).
Slots == {<<o, k>> \in Options \X (1 .. KeyMax) : Rule[o].group # "none" \/ k = 1}

Groups == {Rule[o].group : o \in Options} \ {"none"}

\* The values a variable or a key of the file may have: none, one, and a list may have two; in the
\* file any option may be given twice.
Inputs(o) ==
    {<<>>} \cup {<<v>> : v \in Rule[o].allow \cup {Bad}}
        \cup IF Rule[o].type = "list" THEN {<<v, v>> : v \in Rule[o].allow} ELSE {}
FileInputs(o) == Inputs(o) \cup {<<Bad, Bad>>}

\* The sections searched, the most special first.  The first two exist only when
\* a stanza is given.
Sections == <<"stanza:cmd", "stanza", "global:cmd", "global">>

VARIABLES
    phase,     \* "args", "env", "file", "resolve", "load", "loaded" or "error"
    section,   \* the section being read
    stanza,    \* was a stanza given?
    parse,     \* parseOptionList: what was found for every slot
    seen,      \* optionFound: slots seen in this section
    given,     \* history: every setting and the place it came from
    config     \* the configuration: values and group keys

vars == <<phase, section, stanza, parse, seen, given, config>>

NotFound == [found |-> FALSE, negate |-> FALSE, reset |-> FALSE, source |-> "default", values |-> <<>>]

Init ==
    /\ phase = "args"
    /\ section = 0
    /\ stanza \in BOOLEAN
    /\ parse = [s \in Slots |-> NotFound]
    /\ seen = {}
    /\ given = <<>>
    /\ config = [opt |-> [o \in Options |-> <<>>], keys |-> [g \in Groups |-> <<1>>]]

Fail == /\ phase' = "error"
        /\ UNCHANGED <<section, stanza, parse, seen, config>>

Found(s, negate, reset, source, values) ==
    parse' = [parse EXCEPT ![s] =
        [found |-> TRUE, negate |-> negate, reset |-> reset, source |-> source, values |-> values]]

Given(place, s, form, values) ==
    given' = Append(given, [place |-> place, slot |-> s, form |-> form, values |-> values])

(***************************************************************************)
(* Command line.                                                           *)
(***************************************************************************)

\* Is this spelling of the option refused?
ArgInvalid(o, form, v) ==
    \/ form = "negate" /\ ~Rule[o].negate
    \/ form = "reset" /\ ~Rule[o].reset
    \/ form = "set" /\ Rule[o].type = "bool" /\ v \notin {"y", "n"}
    \/ Rule[o].secure

\* May an option that was already found be given again in this form?
ArgAgain(s, negate, reset) ==
    /\ ~negate /\ ~reset
    /\ ~parse[s].negate /\ ~parse[s].reset
    /\ Rule[s[1]].type = "list"

Arg(s, form, v) ==
    LET o == s[1]
        negate == form = "negate" \/ (form = "set" /\ Rule[o].type = "bool" /\ v = "n")
        reset == form = "reset"
        values == IF form = "set" /\ Rule[o].type # "bool" THEN <<v>> ELSE <<>>
    IN  /\ Given("param", s, form, IF form = "set" THEN <<v>> ELSE <<"n">>)
        /\ IF \/ ArgInvalid(o, form, v)
              \/ parse[s].found /\ ~ArgAgain(s, negate, reset)
           THEN Fail
           ELSE /\ Found(s, negate, reset, "param", parse[s].values \o values)
                /\ UNCHANGED <<phase, section, stanza, seen, config>>

ArgsEnd ==
    /\ phase = "args"
    /\ phase' = "env"
    /\ UNCHANGED <<section, stanza, parse, seen, given, config>>

(***************************************************************************)
(* Environment.  Values of a list are separated by colons, so one variable *)
(* gives them all.                                                         *)
(***************************************************************************)

\* Is a value of the environment or of the file refused?
ValueInvalid(o, values) ==
    \/ values = <<>>
    \/ Rule[o].type = "bool" /\ values[1] \notin {"y", "n"}
    \/ Rule[o].type # "list" /\ Len(values) > 1

\* The first setting of an option is kept, the later ones are skipped.
Keep(s, values) ==
    IF Rule[s[1]].type = "bool"
    THEN Found(s, values[1] = "n", FALSE, "config", <<>>)
    ELSE Found(s, FALSE, FALSE, "config", values)

Env(s, values) ==
    /\ \A i \in DOMAIN given : ~(given[i].place = "env" /\ given[i].slot = s)
    /\ Given("env", s, "set", values)
    /\ IF ~Rule[s[1]].valid
       THEN UNCHANGED <<phase, section, stanza, parse, seen, config>>
       ELSE IF values = <<>> \/ (~parse[s].found /\ ValueInvalid(s[1], values))
       THEN Fail
       ELSE /\ IF parse[s].found THEN UNCHANGED parse ELSE Keep(s, values)
            /\ UNCHANGED <<phase, section, stanza, seen, config>>

EnvEnd ==
    /\ phase = "env"
    /\ phase' = "file"
    /\ section' = IF stanza THEN 1 ELSE 3
    /\ UNCHANGED <<stanza, parse, seen, given, config>>

(***************************************************************************)
(* Configuration file.                                                     *)
(***************************************************************************)

\* An option that is left where it stands: with a warning, or because another
\* command uses it.
FileSkip(o) ==
    \/ ~Rule[o].valid
    \/ Rule[o].section = "stanza" /\ section > 2

FileKeyLast(s, values) ==
    /\ Given(Sections[section], s, "set", values)
    /\ IF s \in seen \/ (~FileSkip(s[1]) /\ ValueInvalid(s[1], values))
       THEN Fail
       ELSE /\ seen' = seen \cup {s}
            /\ IF FileSkip(s[1]) THEN UNCHANGED parse ELSE Keep(s, values)
            /\ UNCHANGED <<phase, section, stanza, config>>

\* A key of the section being read.  The same option twice in one section (under
\* its name and a deprecated one) is an error.
FileKey(s, values) ==
    /\ Given(Sections[section], s, "set", values)
    /\ IF Rule[s[1]].section = "cmd"
       THEN UNCHANGED <<phase, section, stanza, parse, seen, config>>
       ELSE IF s \in seen \/ (~FileSkip(s[1]) /\ ~parse[s].found /\ ValueInvalid(s[1], values))
       THEN Fail
       ELSE /\ seen' = seen \cup {s}
            /\ IF FileSkip(s[1]) \/ parse[s].found THEN UNCHANGED parse ELSE Keep(s, values)
            /\ UNCHANGED <<phase, section, stanza, config>>

SectionEnd ==
    /\ phase = "file"
    /\ section < Len(Sections)
    /\ section' = section + 1
    /\ seen' = {}
    /\ UNCHANGED <<phase, stanza, parse, given, config>>

(***************************************************************************)
(* Group indexes.                                                          *)
(***************************************************************************)

\* Keys of a group for which some valid option was found and not reset.
GroupKeys(g) ==
    {k \in 1 .. KeyMax : \E o \in Options : /\ Rule[o].group = g
                                           /\ Rule[o].valid
                                           /\ parse[<<o, k>>].found
                                           /\ ~parse[<<o, k>>].reset}

Sorted(keys) == SelectSeq([k \in 1 .. KeyMax |-> k], LAMBDA k : k \in keys)

\* indexMap: the key of every index.  The first index of the pg group is key 1
\* whether it is used or not, and there are as many indexes as used keys.
IndexMap(g) ==
    LET used == GroupKeys(g)
    IN  IF used = {} THEN <<1>>
        ELSE IF g = "pg" THEN SubSeq(<<1>> \o Sorted(used \ {1}), 1, Cardinality(used))
        ELSE Sorted(used)

\* An option of the command line that the command does not have is an error.
FileEnd ==
    /\ phase = "file"
    /\ section = Len(Sections)
    /\ phase' = IF \E s \in Slots : ~Rule[s[1]].valid /\ parse[s].found THEN "error" ELSE "resolve"
    /\ config' = [config EXCEPT !.keys = [g \in Groups |-> IndexMap(g)]]
    /\ UNCHANGED <<section, stanza, parse, seen, given>>

(***************************************************************************)
(* Resolution.                                                             *)
(***************************************************************************)

Unset == [set |-> FALSE, value |-> NoValue, source |-> "default", error |-> FALSE, ok |-> FALSE]

\* cfgParseOptionalFilterDepend(): is the option this one depends on set to one
\* of the values asked for?
DependValid(opt, o, i) ==
    \/ Rule[o].depend = NoValue
    \/ LET d == Rule[o].depend
           value == opt[d][IF Rule[d].group = "none" THEN 1 ELSE i]
       IN  value.set /\ (Rule[o].dependIn = {} \/ value.value \in Rule[o].dependIn)

\* What the parse found for option o at index i, and whether that sets the option.
FoundAt(o, i) == parse[<<o, IF Rule[o].group = "none" THEN 1 ELSE config.keys[Rule[o].group][i]>>]

IsSet(o, found) == found.found /\ ~found.reset /\ (Rule[o].type = "bool" \/ ~found.negate)

\* The dependency is not met: an error for an option of the command line, else the
\* option has the default for this case or none.
ResolveUnmet(o, found) ==
    IF IsSet(o, found) /\ found.source = "param" THEN [Unset EXCEPT !.error = TRUE]
    ELSE IF Rule[o].dependDefault # NoValue
    THEN [Unset EXCEPT !.set = TRUE, !.value = Rule[o].dependDefault]
    ELSE Unset

\* Is the value not in the option's allow list (or range)?
Refused(o, value) == Rule[o].type = "string" /\ value \notin Rule[o].allow

\* The value found is converted and must be allowed.
ResolveSet(o, found) ==
    LET value == IF Rule[o].type = "bool" THEN IF found.negate THEN "n" ELSE "y"
                 ELSE IF Rule[o].type = "list" THEN found.values ELSE found.values[1]
    IN  [set |-> TRUE, value |-> value, source |-> found.source, ok |-> TRUE,
         error |-> Refused(o, value)]

\* No value: negated, the default, or an error when one is required.
ResolveDefault(o, found) ==
    IF found.negate THEN [Unset EXCEPT !.source = found.source, !.ok = TRUE]
    ELSE IF Rule[o].default # NoValue
    THEN [Unset EXCEPT !.set = TRUE, !.value = Rule[o].default, !.ok = TRUE]
    ELSE [Unset EXCEPT !.error = Rule[o].required, !.ok = TRUE]

Resolve(opt, o, i) ==
    LET found == FoundAt(o, i)
    IN  IF ~DependValid(opt, o, i) THEN ResolveUnmet(o, found)
        ELSE IF IsSet(o, found) THEN ResolveSet(o, found)
        ELSE ResolveDefault(o, found)

\* An option at every index, after those it depends on.
ResolveOption(opt, o) ==
    LET indexes == IF Rule[o].group = "none" THEN {1} ELSE DOMAIN config.keys[Rule[o].group]
    IN  [opt EXCEPT ![o] = IF Rule[o].valid THEN [i \in indexes |-> Resolve(opt, o, i)] ELSE <<>>]

\* All options, in the resolve order.
ResolveOptions ==
    /\ phase = "resolve"
    /\ \E opt \in {FoldLeft(ResolveOption, config.opt, ResolveOrder)} :
        IF \E o \in Options : \E i \in DOMAIN opt[o] : opt[o][i].error
        THEN Fail
        ELSE /\ phase' = "load" /\ config' = [config EXCEPT !.opt = opt]
             /\ UNCHANGED <<section, stanza, parse, seen>>
    /\ UNCHANGED given

(***************************************************************************)
(* Indexes that hold defaults only are removed, the last one excepted.     *)
(***************************************************************************)

\* optionGroupIndexKeep: does index i of the group hold a value that was given?
IndexKeep(g, i) ==
    \E o \in Options : /\ Rule[o].group = g /\ Rule[o].valid
                      /\ config.opt[o][i].ok /\ config.opt[o][i].source # "default"

\* The indexes that remain, by their old numbers.
Remain(g) ==
    LET kept == {i \in DOMAIN config.keys[g] : IndexKeep(g, i)}
    IN  Sorted(IF kept = {} THEN {1} ELSE kept)

\* The keys of the indexes that remain.  A single index gets key 1 when the group's
\* first index held nothing but defaults.
KeysRemaining(g) ==
    LET remain == Remain(g)
    IN  IF Len(remain) = 1 /\ ~IndexKeep(g, 1) THEN <<1>>
        ELSE [i \in DOMAIN remain |-> config.keys[g][remain[i]]]

(***************************************************************************)
(* cfgLoadUpdateOption(): rules that relate several options.               *)
(***************************************************************************)

\* Two local repositories of one type must not have one path.
SamePath(opt, keys) ==
    \E i, j \in DOMAIN keys["repo"] :
        /\ i # j
        /\ opt["repo-type"][i].value = "posix" /\ opt["repo-type"][j].value = "posix"
        /\ opt["repo-path"][i].value = opt["repo-path"][j].value

\* The option `repo' must name a key that is in use.
RepoInvalid(opt, keys) ==
    /\ opt["repo"][1].set
    /\ \A i \in DOMAIN keys["repo"] : ToString(keys["repo"][i]) # opt["repo"][1].value

Load ==
    /\ phase = "load"
    /\ \E keys \in {[g \in Groups |-> KeysRemaining(g)]} :
       \E opt \in {[o \in Options |->
                        IF ~Rule[o].valid \/ Rule[o].group = "none" THEN config.opt[o]
                        ELSE LET remain == Remain(Rule[o].group)
                             IN  [i \in DOMAIN remain |-> config.opt[o][remain[i]]]]} :
          IF RepoInvalid(opt, keys) \/ SamePath(opt, keys)
          THEN phase' = "error" /\ UNCHANGED config
          ELSE phase' = "loaded" /\ config' = [config EXCEPT !.opt = opt, !.keys = keys]
    /\ UNCHANGED <<section, stanza, parse, seen, given>>

Next ==
    \/ /\ Len(given) < MaxSettings
       /\ \/ phase = "args" /\ \E s \in Slots, form \in {"set", "negate", "reset"} :
                \E v \in Rule[s[1]].allow \cup {Bad} : Arg(s, form, v)
          \/ phase = "env" /\ \E s \in Slots : \E values \in Inputs(s[1]) : Env(s, values)
          \/ phase = "file" /\ \E s \in Slots : \E values \in FileInputs(s[1]) : FileKey(s, values)
    \/ ArgsEnd
    \/ EnvEnd
    \/ SectionEnd
    \/ FileEnd
    \/ ResolveOptions
    \/ Load

Spec == Init /\ [][Next]_vars

(***************************************************************************)
(* Properties.                                                             *)
(***************************************************************************)

Places == <<"param", "env">> \o Sections

\* May this setting decide the option's value?
Counts(g) ==
    LET o == g.slot[1]
    IN  /\ Rule[o].valid
        /\ g.place \notin {"param", "env"} => Rule[o].section # "cmd"
        /\ g.place \in {"global:cmd", "global"} => Rule[o].section # "stanza"

\* The settings of slot s that count and for which no setting of an earlier place counts.
Deciding(s) ==
    LET all == {i \in DOMAIN given : given[i].slot = s /\ Counts(given[i])}
        rank(i) == CHOOSE r \in DOMAIN Places : Places[r] = given[i].place
    IN  {given[i] : i \in {i \in all : \A j \in all : rank(i) <= rank(j)}}

KeysIntact(g) ==
    g = "none" \/ Len(config.keys[g]) > 1 \/ Cardinality(GroupKeys(g)) <= 1

\* PrecedenceHolds: in a configuration that loads, an option whose dependency is
\* met has the value of the first place that gives it one, in the order command line,
\* environment, [stanza:command], [stanza], [global:command], [global]; a value is
\* the default only if no place gives one or the first that does resets it
\* (cfgParse(), phases 1 to 6).  That is said of the keys that got an index.
\* The pg group has as many indexes as keys in use and its first index is key 1: when
\* only pg2 is set no index has key 2, and the setting is skipped without a word
\* (parse.c:2342-2358).  A group of several keys of which one index remains is left
\* out too: the index becomes key 1 whatever key it had.
PrecedenceHolds ==
    phase = "loaded" =>
        \A s \in Slots :
            LET o == s[1]
                intact == KeysIntact(Rule[o].group)
                decide == Deciding(s)
                strings == UNION {Range(d.values) : d \in decide}
                at == IF Rule[o].group = "none" THEN {1}
                      ELSE {i \in DOMAIN config.keys[Rule[o].group] : config.keys[Rule[o].group][i] = s[2]}
            IN  intact => \A i \in at :
                    Rule[o].valid /\ config.opt[o][i].ok =>
                        IF decide = {} \/ \E d \in decide : d.form = "reset"
                        THEN config.opt[o][i].source = "default"
                        ELSE /\ config.opt[o][i].source # "default"
                             /\ CASE \E d \in decide : d.form = "negate" /\ Rule[o].type # "bool" ->
                                        ~config.opt[o][i].set
                                  [] Rule[o].type = "list" ->
                                        Range(config.opt[o][i].value) = strings
                                  [] OTHER -> strings = {config.opt[o][i].value}
=============================================================================
