------------------------------- MODULE Targets -------------------------------
(***************************************************************************)
(* From a definition's exported functions to the target a command line     *)
(* runs: discover and classify, the generated dispatcher, and lath's own   *)
(* handling of the words (run, takeJSONFlag, takeDebugFlag, runTarget).    *)
(*                                                                         *)
(* Names are strings; their case folding and the import alias of a         *)
(* directory are the functions Fold and Alias over the names at hand.      *)
(***************************************************************************)
EXTENDS Naturals, Sequences, FiniteSets

CONSTANTS
    Decls,      \* the exported functions a definition may declare
    MaxDecls,   \* bound: how many of them one definition has
    Words,      \* what an operator may type after the verb
    MaxWords,   \* bound: how many of them
    Fold,       \* ToLower, over every name and word
    Alias       \* namespaceAlias, over every directory

Root == ""
Sigs == {"func()", "func() error", "func(context.Context) error",
         "func(...string) error", "func(context.Context, ...string) error"}

Help == {"-h", "--help"}
Sock == "--lath-debug-socket=s"
Wait == "--lath-debug-wait=w"
Flags == Help \cup {"--json", "--debug", "--debug=bad", Sock, Wait}

\* A declaration: where it is, its name, whether it has type parameters, its
\* result fields (type and how many names each declares) and its parameters.
ASSUME TargetsAssumption ==
    /\ MaxDecls \in Nat /\ MaxWords \in Nat
    /\ \A f \in Decls :
          /\ f.name \in DOMAIN Fold /\ f.dir \in DOMAIN Fold \cap DOMAIN Alias
          /\ f.results \in Seq([type : STRING, names : Nat]) /\ f.params \in Seq(STRING)
    /\ Words \subseteq DOMAIN Fold

\* A flag is no name: a Go identifier has no dash and no element of an import
\* path begins with one.  The flags lath hands the dispatcher are not typed.
ASSUME FlagsAssumption ==
    /\ \A f \in Decls : Fold[f.name] \notin Flags /\ f.dir \notin Flags
    /\ \A w \in Flags \cap DOMAIN Fold : Fold[w] = w
    /\ {Sock, Wait} \cap DOMAIN Fold = {}

VARIABLES
    def,     \* the definition
    asked,   \* what was typed last: the verb, the words, and on a terminal or not
    answer   \* what it did
asking == <<def, asked, answer>>

\* How lath takes a flag off a command line: the other words, in their order.
Without(args, S) ==
    LET kept[n \in 0 .. Len(args)] ==
          IF n = 0 THEN <<>>
          ELSE IF args[n] \in S THEN kept[n - 1] ELSE Append(kept[n - 1], args[n])
    IN  kept[Len(args)]

-----------------------------------------------------------------------------
(* discover.go *)

\* Only result FIELDS are counted, and type parameters are not looked at.
classify(f) ==
    LET returnsError == Len(f.results) = 1
    IN  IF Len(f.results) > 1 \/ (\E i \in DOMAIN f.results : f.results[i].type # "error")
        THEN "unsupported"
        ELSE CASE f.params = <<>> /\ ~returnsError -> "func()"
               [] f.params = <<>> /\ returnsError -> "func() error"
               [] f.params = <<"ctx">> /\ returnsError -> "func(context.Context) error"
               [] f.params = <<"...string">> /\ returnsError -> "func(...string) error"
               [] f.params = <<"ctx", "...string">> /\ returnsError ->
                    "func(context.Context, ...string) error"
               [] OTHER -> "unsupported"

\* A command is what the operator types: the directory as it is spelt, and the
\* name in lower case.
targetOf(f) == [func |-> f, ns |-> f.dir, word |-> Fold[f.name], sig |-> classify(f)]

\* discoverPackage over the root and namespaceDirs; Go's internal directory and
\* the hidden ones are no namespaces.
Visible(d) == {f \in d.fns : f.dir \notin {"internal", "_old"}}
Listed(d) == {targetOf(f) : f \in {g \in Visible(d) : classify(g) # "unsupported"}}
Rejected(d) == {f \in Visible(d) : classify(f) = "unsupported"}

Duplicates(T) == \E t, u \in T : t # u /\ t.ns = u.ns /\ t.word = u.word

\* Mutant: a namespace and a root target may claim one word.
ClashesMissed(T) == FALSE

Clashes(T) == \E t, u \in T : t.ns = Root /\ u.ns # Root /\ t.word = u.ns

discover(d) ==
    LET T == Listed(d)
    IN  CASE d.state = "missing" -> "ErrNoDefinition"
          [] d.state = "broken" -> "parse error"
          [] d.state = "deep" -> "ErrTooDeep"
          [] d.state = "ok" /\ T = {} -> "ErrNoTargets"
          [] d.state = "ok" /\ T # {} /\ Duplicates(T) -> "ErrDuplicateTarget"
          [] d.state = "ok" /\ ~Duplicates(T) /\ Clashes(T) -> "ErrNamespaceClash"
          [] OTHER -> "nil"

Namespaces(d) == {t.ns : t \in Listed(d)} \ {Root}

-----------------------------------------------------------------------------
(* generate.go: the dispatcher as data, the compiler, and main. *)

\* Mutant: a namespaced target is handed its own name as first argument.
StatementAtTwo(t) ==
    [callee |-> t.func, form |-> t.sig, from |-> 2]

\* Signature.Statement: the call, and the first word of a variadic target's.
Statement(t) ==
    [callee |-> t.func, form |-> t.sig, from |-> IF t.ns = Root THEN 2 ELSE 3]

generate(d) == [n \in {Root} \cup Namespaces(d) |->
                  [t \in {u \in Listed(d) : u.ns = n} |-> Statement(t)]]

\* What go build says of a statement: as many values as are assigned, and no
\* type arguments to infer.
CallCompiles(s) ==
    /\ ~s.callee.generic
    /\ s.form # "func()" =>
        s.callee.results[1].names <= 1

\* ... and of the file: no import alias twice.
FileCompiles(d) ==
    /\ \A n \in DOMAIN generate(d) : \A t \in DOMAIN generate(d)[n] :
            CallCompiles(generate(d)[n][t])
    /\ \A m, n \in Namespaces(d) : Alias[m] = Alias[n] => m = n

Takes(s) == s.form \in {"func(...string) error", "func(context.Context, ...string) error"}

\* The call a statement makes of the words after the binary's own name.
Called(s, argv) ==
    [kind |-> "ran", func |-> s.callee,
     args |-> IF Takes(s) THEN SubSeq(argv, s.from, Len(argv)) ELSE <<>>]

Said(k) == [kind |-> k]

\* takeSocketFlag and, if that found one, takeWaitFlag: without the debugger's
\* code in the dispatcher nothing takes them.
Strip(d, argv) ==
    IF d.debuggable THEN Without(argv, {Sock, Wait}) ELSE argv

\* lower: names are ASCII here, so it agrees with ToLower; the flags lath itself
\* appends are in lower case already.
lower(w) == IF w \in DOMAIN Fold THEN Fold[w] ELSE w

\* The case of a switch that w selects: the targets of n with that word.
Case(d, n, w) == {t \in DOMAIN generate(d)[n] : t.word = lower(w)}

Call(d, n, w, argv) ==
    LET t == CHOOSE u \in Case(d, n, w) : TRUE IN Called(generate(d)[n][t], argv)

\* main of the dispatcher.  It counts its arguments before it strips them, and
\* os.Args[1] of nothing panics.
Dispatch(d, argv) ==
    LET a == Strip(d, argv)
    IN  IF argv = <<>> THEN Said("usage")
        ELSE IF a = <<>> THEN Said("panic")
        ELSE IF Case(d, Root, a[1]) # {} THEN Call(d, Root, a[1], a)
        ELSE IF lower(a[1]) \notin Namespaces(d) \/ Len(a) = 1 THEN Said("usage")
        ELSE IF Case(d, lower(a[1]), a[2]) = {} THEN Said("usage")
        ELSE Call(d, lower(a[1]), a[2], a)

-----------------------------------------------------------------------------
(* main.go *)

Has(args, w) == \E i \in DOMAIN args : args[i] = w

takeJSONFlag(args) == Without(args, {"--json"})

takeDebugFlag(args) == Without(args, {"--debug"})

\* A debug flag with a bad duration, no terminal, a discovery error, a
\* dispatcher that does not compile, or the hand-over.
runTarget(d, args, tty) ==
    LET debugging == Has(args, "--debug")
        left == takeDebugFlag(args)
    IN  CASE Has(args, "--debug=bad") -> Said("usage")
          [] ~Has(args, "--debug=bad") /\ debugging /\ ~tty -> Said("usage")
          [] OTHER ->
               IF discover(d) # "nil" THEN Said(discover(d))
               ELSE IF ~FileCompiles(d) THEN Said("ErrCompile")
               ELSE Dispatch(d, left \o IF debugging THEN <<Sock, Wait>> ELSE <<>>)

\* VerbRun: an incomplete command is answered with what would complete it.
Run(d, rest, tty) ==
    IF discover(d) # "nil" THEN Said(discover(d))
    ELSE IF rest = <<>> THEN Said("list")
    ELSE IF Fold[rest[1]] \in Namespaces(d) /\ (Len(rest) = 1 \/ rest[2] \in Help) THEN Said("group")
    ELSE runTarget(d, rest, tty)

\* VerbPlan and VerbDryRun, which take --json from anywhere.
Plan(d, rest, tty) ==
    LET left == takeJSONFlag(rest)
    IN  IF left # <<>> THEN runTarget(d, left, tty)
        ELSE IF discover(d) # "nil" THEN Said(discover(d)) ELSE Said("list")

List(d) == Said(IF discover(d) # "nil" THEN discover(d) ELSE "list")

\* run: help for a verb is asked at the first word only.
AnswerTo(d, v, rest, tty) ==
    IF rest # <<>> /\ rest[1] \in Help THEN Said("help")
    ELSE CASE v = "run" -> Run(d, rest, tty)
           [] v = "plan" -> Plan(d, rest, tty)
           [] v = "list" -> List(d)

-----------------------------------------------------------------------------
\* A package declares a name once.
Packages == {F \in SUBSET Decls :
                /\ Cardinality(F) <= MaxDecls
                /\ \A f, g \in F : f.dir = g.dir /\ f.name = g.name => f = g}

Definitions ==
    [fns : Packages, state : {"ok"}, debuggable : BOOLEAN]
    \cup [fns : {{}}, state : {"missing", "broken", "deep"}, debuggable : {FALSE}]

AskInit ==
    /\ def \in Definitions
    /\ asked = [verb |-> "none", words |-> <<>>, tty |-> TRUE] /\ answer = Said("none")

Ask(v, rest, tty) ==
    /\ asked' = [verb |-> v, words |-> rest, tty |-> tty]
    /\ answer' = AnswerTo(def, v, rest, tty)
    /\ UNCHANGED def

\* Every question may be the first: one invocation leaves nothing to the next.
AskNext ==
    /\ asked.verb = "none"
    /\ \E v \in {"run", "plan", "list"}, tty \in BOOLEAN :
        \E k \in 0 .. MaxWords : \E rest \in [1 .. k -> Words] : Ask(v, rest, tty)

AskSpec == AskInit /\ [][AskNext]_asking

-----------------------------------------------------------------------------
(* Properties, against a reference that knows nothing of the dispatcher: a    *)
(* target is the function whose directory and name the operator typed.        *)

\* The words that are not lath's own.
Typed == Without(asked.words, IF asked.verb = "plan" THEN {"--debug", "--json"} ELSE {"--debug"})

\* The words that name a function, and what is left for it.
Command(f) == IF f.dir = Root THEN <<Fold[f.name]>> ELSE <<f.dir, Fold[f.name]>>
Names(f) == LET k == Len(Command(f))
            IN  Len(Typed) >= k /\ [i \in 1 .. k |-> Fold[Typed[i]]] = Command(f)
Left(f) == SubSeq(Typed, Len(Command(f)) + 1, Len(Typed))

\* What ran is what was typed, and only that: the one usable function of that
\* name, called with the words after it, none of them lath's, if it takes any.
\* (A definition that does not use the pipeline module has no code for --debug.)
RightTarget ==
    answer.kind = "ran" =>
        /\ Names(answer.func)
        /\ \A f \in Visible(def) \ Rejected(def) : Names(f) => f = answer.func
        /\ ~(Has(asked.words, "--debug") /\ ~def.debuggable) =>
            answer.args = IF "...string" \in {answer.func.params[i] : i \in DOMAIN answer.func.params}
                          THEN Left(answer.func) ELSE <<>>

\* Directories in lower case with different aliases, and no shape that classify
\* misjudges: type parameters, or several results in one field.
Regular(d) ==
    /\ \A f \in Visible(d) : Fold[f.dir] = f.dir /\ ~f.generic
    /\ \A f \in Visible(d) : \A i \in DOMAIN f.results : f.results[i].names <= 1
    /\ \A f, g \in Visible(d) : Alias[f.dir] = Alias[g.dir] => f.dir = g.dir

\* discover promises that a command it lists exists: in a regular definition
\* that is accepted, each function runs when its listed command is typed, and
\* each one that does not run was reported.
ListedRuns ==
    Regular(def) /\ discover(def) = "nil" /\ asked.verb \in {"run", "plan"} =>
        \A f \in Visible(def) \ Rejected(def) :
            /\ Names(f)
            /\ asked.words[1] \notin Help /\ ~Has(asked.words, "--debug=bad")
            /\ (asked.tty \/ ~Has(asked.words, "--debug"))
            /\ ~(Has(asked.words, "--debug") /\ ~def.debuggable)
            /\ ~(Len(asked.words) > 1 /\ asked.words[2] \in Help /\ f.dir # Root)
            => answer.kind = "ran" /\ answer.func = f

\* "An incomplete command shows what would complete it": words that are all
\* lath's own name no target, and are answered with the usage or a listing.
IncompleteAnswered ==
    asked.verb \in {"run", "plan"} /\ discover(def) = "nil" /\ FileCompiles(def) /\ Typed = <<>>
        => answer.kind \in {"usage", "list"}

\* "Matching is case-insensitive", and a namespace is its directory's name in
\* lower case: a usable function is run by the two words that name it, however
\* its directory is spelt.
NamespacesMatch ==
    discover(def) = "nil" /\ FileCompiles(def) /\ asked.verb = "run" =>
        \A f \in Visible(def) \ Rejected(def) :
            f.dir # Root /\ [i \in DOMAIN asked.words |-> Fold[asked.words[i]]]
                              = <<Fold[f.dir], Fold[f.name]>>
            => answer.kind = "ran"
=============================================================================
