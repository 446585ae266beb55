------------------------------ MODULE CommandLine ------------------------------
(***************************************************************************)
(* internal/cli/parser.go, cmd/pget/main.go and internal/job/background.go:*)
(* the words of a command line are read one by one into a plan, the plan   *)
(* is validated, and with -b the same command line, without the words "-b" *)
(* and "--background", is given to a child that reads it again.            *)
(*                                                                         *)
(* A word is what the parser makes of it: a group of options, possibly     *)
(* with a value attached to the last one, "--", "-", or anything else.     *)
(***************************************************************************)
EXTENDS Naturals, Sequences, SequencesExt

CONSTANTS
    Words,      \* the words considered
    MaxWords,   \* length of the command lines: a bound of the model
    FileUrls,   \* the URLs in an input file
    Headers     \* values with a colon

\* The option table, by what setOption does with them.
Flags == {"quiet", "verbose", "no-verbose", "server-response", "continue", "no-clobber",
          "timestamping", "background", "retry-connrefused", "content-disposition",
          "no-use-server-timestamps", "spider", "no-check-certificate", "ftps-implicit",
          "no-parallel"}
Exits  == {"version", "help"}
Logs   == {"output-file", "append-output"}
Lists  == {"header", "retry-on-http-error"}
Counts == {"tries", "connections"}
Sizes  == {"split-size", "buffer-size"}
Times  == {"timeout", "connect-timeout", "read-timeout"}
Texts  == {"output-document", "input-file", "progress", "user-agent", "referer"}
              \cup Sizes \cup Times
Numeric == Counts \cup Sizes \cup Times \cup {"retry-on-http-error"}
Valued == Logs \cup Lists \cup Counts \cup Texts
Option == Flags \cup Exits \cup Valued

NoWord == [form |-> "none"]
Empty  == [form |-> "empty"]      \* the value of "--name="
Group(long, options, attached) ==
    [form |-> "options", long |-> long, options |-> options, attached |-> attached]
Plain(text) == [form |-> "plain", text |-> text]
Number(n)   == [form |-> "plain", number |-> n]
Separator == [form |-> "separator"]
Dash      == [form |-> "dash"]
Unknown   == [form |-> "unknown"]

\* "-b" and "--background", to the letter.
BackgroundWords == {Group(long, <<"background">>, NoWord) : long \in BOOLEAN}

ASSUME CommandAssumption ==
    /\ MaxWords \in Nat
    /\ \A w \in Words :
         /\ w.form \in {"options", "plain", "separator", "dash", "unknown"}
         /\ w.form = "dash" => w = Dash
         /\ w.form = "options" =>
              /\ w.options \in Seq(Option) \ {<<>>}
              \* a value is the rest of a short group
              /\ \A k \in 1 .. Len(w.options) - 1 : w.options[k] \notin Valued

VARIABLES
    args,       \* os.Args
    process,    \* "parent", or "child": the marker is in its environment
    i,          \* the loop index of parseOptions
    stopped,    \* stopOptions
    urls,       \* what is not an option
    plan,
    step,       \* "parse", "validate", "accepted", "running", "exited"
    code,       \* exit code
    parent,     \* what the parent had read when it started the child
    children    \* children started

ownVars == <<args, i, stopped, urls, plan, step, code>>
commandVars == <<ownVars, process, parent, children>>

DefaultPlan ==
    [flags |-> {}, text |-> [o \in Counts \cup Texts |-> NoWord],
     log |-> <<"stderr">>, lists |-> [o \in Lists |-> <<>>]]

Reading == [args |-> args, urls |-> urls, plan |-> plan]

CommandInit ==
    /\ args \in UNION {[1 .. n -> Words] : n \in 0 .. MaxWords}
    /\ process = "parent"
    /\ i = 1 /\ stopped = FALSE /\ urls = <<>> /\ plan = DefaultPlan
    /\ step = "parse" /\ code = 0
    /\ parent = [args |-> <<>>, urls |-> <<>>, plan |-> DefaultPlan]
    /\ children = 0

-----------------------------------------------------------------------------
(* setOption *)

SetOption(p, o, v) ==
    CASE o \in Flags  -> [p EXCEPT !.flags = @ \cup {o}]
      [] o \in Logs   -> [p EXCEPT !.log = <<o, v>>]
      [] o \in Lists  -> [p EXCEPT !.lists[o] = Append(@, v)]
      [] OTHER        -> [p EXCEPT !.text[o] = v]

\* Counts are positive numbers, sizes, times and codes are numbers; other values are taken
\* as they come.
IsNumber(v) == "number" \in DOMAIN v
ValidValue(o, v) ==
    /\ o \in Numeric => IsNumber(v)
    /\ o \in Counts => v.number > 0

\* One after another; all but the last are flags.
SetAll(p, options, v) ==
    SetOption([p EXCEPT !.flags = @ \cup ToSet(Front(options))], Last(options), v)

-----------------------------------------------------------------------------
(* parseOptions *)

Looking(form) == step = "parse" /\ i <= Len(args) /\ ~stopped /\ args[i].form = form

Exit(n) == step' = "exited" /\ code' = n
ParseError == Exit(2) /\ UNCHANGED <<args, i, stopped, urls, plan, process, parent, children>>

\* Parse drops every "-" among the URLs.
Positional ==
    /\ step = "parse" /\ i <= Len(args)
    /\ stopped \/ args[i].form \in {"plain", "dash"}
    /\ urls' = IF args[i] = Dash THEN urls ELSE Append(urls, args[i])
    /\ i' = i + 1
    /\ UNCHANGED <<args, stopped, plan, step, code, process, parent, children>>

StopOptions ==
    /\ Looking("separator")
    /\ stopped' = TRUE /\ i' = i + 1
    /\ UNCHANGED <<args, urls, plan, step, code, process, parent, children>>

UnknownOption == Looking("unknown") /\ ParseError

\* parseLongOption, parseShortOptions: an option without a value takes the next word,
\* whatever it is; "--name=" counts as no value.
WantsNext(w) ==
    /\ Last(w.options) \in Valued
    /\ w.attached = NoWord \/ (w.long /\ w.attached = Empty)
ValueOf(w, next) == IF WantsNext(w) THEN next ELSE w.attached

\* MUTANT: the word that was taken as a value is read again.
ReadOptionsAgain ==
    /\ Looking("options")
    /\ LET w == args[i]
           next == IF i < Len(args) THEN args[i + 1] ELSE NoWord
       IN  /\ ToSet(w.options) \cap Exits = {}
           /\ WantsNext(w) => i < Len(args)
           /\ \A o \in ToSet(w.options) : ValidValue(o, ValueOf(w, next))
           /\ plan' = SetAll(plan, w.options, ValueOf(w, next))
    /\ i' = i + 1
    /\ UNCHANGED <<args, stopped, urls, step, code, process, parent, children>>

ReadOptions ==
    /\ Looking("options")
    /\ LET w == args[i]
           next == IF i < Len(args) THEN args[i + 1] ELSE NoWord
       IN  /\ ToSet(w.options) \cap Exits = {}
           /\ WantsNext(w) => i < Len(args)
           /\ \A o \in ToSet(w.options) : ValidValue(o, ValueOf(w, next))
           /\ plan' = SetAll(plan, w.options, ValueOf(w, next))
           /\ i' = IF WantsNext(w) THEN i + 2 ELSE i + 1
    /\ UNCHANGED <<args, stopped, urls, step, code, process, parent, children>>

\* A value is missing or invalid.
BadOption ==
    /\ Looking("options")
    /\ LET w == args[i]
       IN  /\ ToSet(w.options) \cap Exits = {}
           /\ \/ WantsNext(w) /\ i = Len(args)
              \/ /\ WantsNext(w) => i < Len(args)
                 /\ \E o \in ToSet(w.options) :
                      ~ValidValue(o, ValueOf(w, IF i < Len(args) THEN args[i + 1] ELSE NoWord))
    /\ ParseError

\* --help and --version exit at once.
ExitOption ==
    /\ Looking("options") /\ ToSet(args[i].options) \cap Exits # {}
    /\ Exit(0)
    /\ UNCHANGED <<args, i, stopped, urls, plan, process, parent, children>>

\* The URLs of an input file follow the others.
EndParse ==
    /\ step = "parse" /\ i > Len(args)
    /\ \/ /\ urls' = IF plan.text["input-file"] = NoWord THEN urls ELSE urls \o FileUrls
          /\ step' = "validate" /\ UNCHANGED code
       \/ /\ plan.text["input-file"] # NoWord     \* it cannot be read
          /\ Exit(2) /\ UNCHANGED urls
    /\ UNCHANGED <<args, i, stopped, plan, process, parent, children>>

-----------------------------------------------------------------------------
(* validate, and what main and Run do with the plan *)

Stdout(p) == p.text["output-document"] = Dash

\* In MiB; the defaults are 8 and 128.
SizeOf(p, o, default) == IF p.text[o] = NoWord THEN default ELSE p.text[o].number

Contradictory(p) ==
    \/ Stdout(p) /\ p.flags \cap {"background", "continue"} # {}
    \/ SizeOf(p, "buffer-size", 128) < SizeOf(p, "split-size", 8)
    \/ \E j \in 1 .. Len(p.lists["header"]) : p.lists["header"][j] \notin Headers

\* --no-parallel forces one connection.
Settled(p) ==
    IF "no-parallel" \in p.flags THEN [p EXCEPT !.text["connections"] = Number(1)] ELSE p

Validate ==
    /\ step = "validate"
    /\ IF Contradictory(plan)
         THEN Exit(2) /\ UNCHANGED plan
         ELSE step' = "accepted" /\ plan' = Settled(plan) /\ UNCHANGED code
    /\ UNCHANGED <<args, i, stopped, urls, process, parent, children>>

\* MUTANT: the marker in the environment is not looked at.
MustDetachAlways == step = "accepted" /\ "background" \in plan.flags

MustDetach == step = "accepted" /\ process = "parent" /\ "background" \in plan.flags

\* The elements at some places of a sequence, in order.
Picked(seq, places) ==
    LET upTo[n \in 0 .. Len(seq)] ==
          IF n = 0 THEN <<>>
          ELSE IF n \in places THEN Append(upTo[n - 1], seq[n])
          ELSE upTo[n - 1]
    IN  upTo[Len(seq)]

\* MUTANT: the child is given nothing but the URLs.
ChildArgsUrlsOnly(words) == Picked(words, {j \in 1 .. Len(words) : words[j].form = "plain"})

ChildArgs(words) == Picked(words, {j \in 1 .. Len(words) : words[j] \notin BackgroundWords})

\* DetachToBackground: the parent exits with success, the child starts from the top.
Detach ==
    /\ MustDetach
    /\ parent' = Reading
    /\ process' = "child" /\ children' = children + 1
    /\ args' = ChildArgs(args)
    /\ i' = 1 /\ stopped' = FALSE /\ urls' = <<>> /\ plan' = DefaultPlan
    /\ step' = "parse" /\ code' = 0

DetachFails ==
    /\ MustDetach
    /\ Exit(1)
    /\ UNCHANGED <<args, i, stopped, urls, plan, process, parent, children>>

\* Run wants at least one URL.
Run ==
    /\ step = "accepted" /\ ~MustDetach
    /\ IF urls = <<>> THEN Exit(2) ELSE step' = "running" /\ UNCHANGED code
    /\ UNCHANGED <<args, i, stopped, urls, plan, process, parent, children>>

Idle == step \in {"running", "exited"} /\ UNCHANGED commandVars

CommandNext ==
    \/ Positional \/ StopOptions \/ UnknownOption
    \/ ReadOptions \/ BadOption \/ ExitOption \/ EndParse
    \/ Validate \/ Detach \/ DetachFails \/ Run
    \/ Idle

CommandSpec == CommandInit /\ [][CommandNext]_commandVars

-----------------------------------------------------------------------------
(* What a command line means, word by word *)

\* The role of each word: the value of the word before it, a URL after "--", or what it
\* looks like.
Roles(words) ==
    LET role[j \in 0 .. Len(words)] ==
          IF j = 0 THEN "none"
          ELSE IF role[j - 1] = "options" /\ WantsNext(words[j - 1]) THEN "value"
          ELSE IF \E k \in 1 .. j - 1 : role[k] = "separator" THEN "plain"
          ELSE words[j].form
    IN  role

Places(words, form) == {j \in 1 .. Len(words) : Roles(words)[j] = form}
Given(words, j) == ValueOf(words[j], IF j < Len(words) THEN words[j + 1] ELSE NoWord)

\* The places that set an option of a set, and the value of the last of them.
Setting(words, set) == {j \in Places(words, "options") : ToSet(words[j].options) \cap set # {}}
LastOf(places) == CHOOSE j \in places : \A k \in places : k <= j
Urls(words) == Picked(words, {j \in Places(words, "plain") : words[j] # Dash})
Values(words) ==
    [j \in 1 .. Len(words) |-> IF words[j].form = "options" THEN Given(words, j) ELSE NoWord]

\* Every flag given anywhere, every value of a list, and the last value of every other
\* option: nothing else in the order of the words matters.
MeaningAgrees(words, p, us) ==
    /\ us = Urls(words) \o (IF Setting(words, {"input-file"}) # {} THEN FileUrls ELSE <<>>)
    /\ p.flags = {f \in Flags : Setting(words, {f}) # {}}
    /\ \A o \in (Counts \cup Texts) \ {"connections"} :
         p.text[o] = IF Setting(words, {o}) = {} THEN NoWord
                     ELSE Given(words, LastOf(Setting(words, {o})))
    /\ p.log = IF Setting(words, Logs) = {} THEN <<"stderr">>
               ELSE LET j == LastOf(Setting(words, Logs))
                    IN  <<Last(words[j].options), Given(words, j)>>
    /\ \A o \in Lists : p.lists[o] = Picked(Values(words), Setting(words, {o}))

-----------------------------------------------------------------------------
(* Properties *)

\* The word-by-word reading, with values that take the next word, "--", groups and "-",
\* arrives at the meaning of the command line: no word is read twice or skipped, and
\* options may stand in any order, before and after URLs.
ParsedAsMeant == step \in {"accepted", "running"} => MeaningAgrees(args, plan, urls)

\* "-b" and "--background" stand only where they are options.
BackgroundIsAnOption(words) ==
    \A j \in 1 .. Len(words) : words[j] \in BackgroundWords => Roles(words)[j] = "options"

\* The child does what its parent was asked to do: it accepts its command line, and
\* arrives at the parent's plan and URLs, whatever else the words are; or it too finds
\* that there is no URL.
ChildRunsParentsPlan ==
    process = "child" /\ BackgroundIsAnOption(parent.args) =>
        /\ step \in {"accepted", "running"} =>
             /\ urls = parent.urls
             /\ [plan EXCEPT !.flags = @ \cup {"background"}] = parent.plan
        /\ step = "exited" => parent.urls = <<>> \/ parent.plan.text["input-file"] # NoWord

\* However the child's command line still asks for the background ("-qb"), one child is
\* all.
DetachesOnce == children <= 1

-----------------------------------------------------------------------------
(* What the documents say and the code does not do *)

\* The same without a condition.  background.go: "The child runs the same executable with
\* the same arguments".
ChildAlwaysAgrees ==
    process = "child" /\ step = "running" =>
        urls = parent.urls /\ plan.text["output-document"] = parent.plan.text["output-document"]

\* DESIGN.md, 7: -nc is --no-clobber.  So nobody who gave no -c has asked to continue.
NoClobberIsNotContinue ==
    step = "running" =>
        ("continue" \in plan.flags =>
            \E j \in Places(args, "options") :
                "continue" \in ToSet(args[j].options) /\ "no-clobber" \notin ToSet(args[j].options))

\* DESIGN.md, 15: "The foreground process validates arguments": a parent that reports
\* success has a child that runs.
ParentSuccessIsMeant == process = "child" => ~(step = "exited" /\ code = 2)
=============================================================================
