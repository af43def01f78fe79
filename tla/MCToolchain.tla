----------------------------- MODULE MCToolchain -----------------------------
(***************************************************************************)
(* The compiler and its tools for TLC.  A behaviour uses one part of them, *)
(* named by `use`; the others are off.                                     *)
(***************************************************************************)
EXTENDS SmpContexts, Futures, Packages

CONSTANTS ByteBits, IntBits, WideBits, MaxEvents, Programs,    \* Mir
          Literals, Inputs, Levels, Modes

VARIABLES use,
          prog, lit, level, mode, code, errs, done,               \* Mir
          sProgram, stage, sErrors, subst,                        \* SendSync
          source, toks, pos, open, failed, placed, pPhase         \* Parser

mirVars     == <<prog, lit, level, mode, code, errs, done>>
sendVars    == <<sProgram, stage, sErrors, subst>>
parserVars  == <<source, toks, pos, open, failed, placed, pPhase>>
toolVars == <<use, smpVars, futureVars, mirVars, sendVars, parserVars, packageVars>>
-----------------------------------------------------------------------------
(* SmpContexts: f, g and h call each other, x is an extern, k and x have a  *)
(* parameter that is not Send.  The body of h touches one global.           *)
CallGraphs == {[f |-> a, g |-> b, h |-> c, x |-> {}, k |-> {}] :
                  a \in SUBSET {"g", "h"}, b \in SUBSET {"f", "x", "k"}, c \in SUBSET {"f", "h"}}
RootSets == {{"f"}, {"f", "g"}, {"g", "x"}}
Cell(mut, percpu, shared, struct) == [mut |-> mut, percpu |-> percpu, shared |-> shared, struct |-> struct]
Globals == [limit  |-> Cell(FALSE, FALSE, FALSE, FALSE),
            ticks  |-> Cell(TRUE, TRUE, FALSE, FALSE),
            online |-> Cell(TRUE, FALSE, TRUE, FALSE),
            plain  |-> Cell(TRUE, FALSE, FALSE, FALSE),
            queue  |-> Cell(TRUE, FALSE, FALSE, TRUE)]
Access(cell, field) == [cell |-> cell, field |-> field, local |-> FALSE]
Accesses == {Access(c, Whole) : c \in DOMAIN Globals}
            \cup {Access("queue", "wakeups"), Access("queue", "hint"), [Access("plain", Whole) EXCEPT !.local = TRUE]}
TouchedBodies == {[f |-> {}, g |-> {Access("queue", "wakeups")}, h |-> {u}, x |-> {}, k |-> {}] : u \in Accesses}

(* Futures: outer awaits inner and a foreign future, inner two leaves and a *)
(* foreign one.                                                             *)
Awaits == [outer |-> <<"inner", "ext">>, inner |-> <<"leaf", "ext", "leaf">>]

(* MIR: the values of the parameter x.                                      *)
InputRange == -1 .. 3

(* SendSync and Parser.                                                     *)
SP == INSTANCE SendPrograms
PL == INSTANCE Layouts
StructLibrary == SP!Library
SendPrograms == SP!AllPrograms
ParsedSources == PL!AllSources

(* Packages: app depends on net and log, directly, by other names, in       *)
(* cycles, or by paths that do not resolve.                                 *)
PackageTrees ==
    {[app |-> a, net |-> b, log |-> c] :
        a \in {[net |-> "net", log |-> "log"], [net |-> "net", fmt |-> NoPath], [net |-> "net", old |-> "log"]},
        b \in {[log |-> "log"], [base |-> "log", fmt |-> "app"], [fmt |-> NoPath, net |-> "net"]},
        c \in {<<>>, [fmt |-> "net"], [app |-> "app"]}}
Directive(word, name) == [word |-> word, name |-> name]
EntryHeaders == {<<>>, <<Directive("dontneed", "fmt")>>,
                 <<Directive("dontneed", "std"), Directive("dontneed", "log"), Directive("need", "log")>>}
BrokenSets == {{}, {"log"}, {"net"}, {EntrySource}, {LockFile}}

M == INSTANCE MCMir
T == INSTANCE SendSync WITH Structs <- StructLibrary, Programs <- SendPrograms, MaxDepth <- 64,
                            program <- sProgram, errors <- sErrors
P == INSTANCE MCParser WITH Sources <- ParsedSources, phase <- pPhase

ASSUME ToolchainAssumption == /\ {ByteBits, IntBits, WideBits, MaxEvents, MaxPending, MaxPolls} \subseteq Nat \ {0}
                              /\ ByteBits < IntBits /\ IntBits < WideBits
                              /\ FutureAssumption /\ PackageAssumption
-----------------------------------------------------------------------------
SmpOff == /\ calls = <<>> /\ declared = {} /\ touches = <<>> /\ phase = Off /\ concurrent = {}
          /\ work = <<>> /\ seen = {} /\ errors = {} /\ at = [c \in Cpus |-> Off]
FuturesOff == /\ frames = <<>> /\ live = {} /\ stack = <<>> /\ drops = <<>>
              /\ rc = 0 /\ client = Off /\ polls = 0
              /\ waited = {} /\ orphans = {}
MirOff == /\ prog = Off /\ lit = 0 /\ level = 0 /\ mode = Off
          /\ code = <<>> /\ errs = {} /\ done = -1
SendOff == sProgram = <<>> /\ stage = Off /\ sErrors = {} /\ subst = <<>>
ParserOff == /\ source = <<>> /\ toks = <<>> /\ pos = 0 /\ open = <<>>
             /\ failed = FALSE /\ placed = {} /\ pPhase = Off
PackagesOff == /\ tree = <<>> /\ broken = {} /\ header = <<>> /\ command = Off /\ walk = <<>>
               /\ visited = {} /\ sources = <<>> /\ lock = <<>> /\ built = FALSE /\ fetched = FALSE

ToolInit ==
    \/ use = "Smp" /\ Init /\ FuturesOff /\ MirOff /\ SendOff /\ ParserOff /\ PackagesOff
    \/ use = "Futures" /\ FutureInit /\ SmpOff /\ MirOff /\ SendOff /\ ParserOff /\ PackagesOff
    \/ use = "Mir" /\ M!Init /\ SmpOff /\ FuturesOff /\ SendOff /\ ParserOff /\ PackagesOff
    \/ use = "Send" /\ T!Init /\ SmpOff /\ FuturesOff /\ MirOff /\ ParserOff /\ PackagesOff
    \/ use = "Parser" /\ P!Init /\ SmpOff /\ FuturesOff /\ MirOff /\ SendOff /\ PackagesOff
    \/ use = "Packages" /\ PackageInit /\ SmpOff /\ FuturesOff /\ MirOff /\ SendOff /\ ParserOff

ToolNext ==
    \/ Next /\ UNCHANGED <<use, futureVars, mirVars, sendVars, parserVars, packageVars>>
    \/ FutureNext /\ UNCHANGED <<use, smpVars, mirVars, sendVars, parserVars, packageVars>>
    \/ M!Next /\ UNCHANGED <<use, smpVars, futureVars, sendVars, parserVars, packageVars>>
    \/ T!Next /\ UNCHANGED <<use, smpVars, futureVars, mirVars, parserVars, packageVars>>
    \/ P!Next /\ UNCHANGED <<use, smpVars, futureVars, mirVars, sendVars, packageVars>>
    \/ PackageNext /\ UNCHANGED <<use, smpVars, futureVars, mirVars, sendVars, parserVars>>

ToolSpec == /\ ToolInit /\ [][ToolNext]_toolVars
            /\ Fairness /\ FutureFairness /\ P!Fairness /\ PackageFairness
-----------------------------------------------------------------------------
(* The properties of SmpContexts, Futures and Packages are those of their   *)
(* modules.                                                                 *)

(* MIR: after lowering and after every pass the code behaves as its source  *)
(* says, its blocks and operands are well formed and its operands have the  *)
(* type their use prints.                                                   *)
SameBehaviour == M!SameBehaviour
ValidCode     == M!ValidCode

(* Send and Sync: only what is Send crosses into a concurrent function, and *)
(* what is Send by its fields is let through.                               *)
OnlySendCrosses  == use = "Send" => T!OnlySendCrosses
SendIsStructural == use = "Send" => T!SendIsStructural

(* Layout: a source is parsed without an error exactly when it is laid out, *)
(* each line into the construct it is indented under; recovery ends but for *)
(* the two loops of Stuck; formatting keeps that and settles at once.       *)
ParsingEnds     == use = "Parser" => P!ParsingEnds
ParsedAsLaidOut == P!ParsedAsLaidOut
FormatPreserves == P!FormatPreserves

(* Every command of the package tool ends.                                  *)
ToolCommandsEnd == use = "Packages" => CommandsEnd
=============================================================================
