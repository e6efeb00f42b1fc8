------------------------------- MODULE Shell -------------------------------
(***************************************************************************)
(* The shell (user/sh.c): the recursive parser of command lines and the    *)
(* descriptors runcmd() gives to the commands of a line.  A word, whatever *)
(* its letters, is "a"; white space is gone.                               *)
(***************************************************************************)
EXTENDS Naturals, Sequences, SequencesExt

CONSTANTS MAXARGS, MaxTokens      \* bound: tokens of a line

Symbols == {"|", "(", ")", ";", "&", "<", ">"}
Tokens  == Symbols \cup {"a"}

VARIABLE line     \* the tokens typed

Init == line = <<>>
Next == Len(line) < MaxTokens /\ \E k \in Tokens : line' = Append(line, k)
Spec == Init /\ [][Next]_line

-----------------------------------------------------------------------------
(* gettoken() and peek() on the tokens that are left.                       *)
GetToken(s) == IF s = <<>> THEN "end" ELSE Head(s)
Peek(s, toks) == s # <<>> /\ Head(s) \in toks

\* The results of a parsing function: a command and what is left, or a panic
Parsed(c, s) == [ok |-> TRUE, cmd |-> c, rest |-> s]
Panics == [ok |-> FALSE, cmd |-> [type |-> "EXEC", argc |-> 0], rest |-> <<>>]

\* What follows a parse that has not panicked
Then(r, F(_, _)) == IF r.ok THEN F(r.cmd, r.rest) ELSE Panics

execcmd(n) == [type |-> "EXEC", argc |-> n]
redircmd(c, fd) == [type |-> "REDIR", cmd |-> c, fd |-> fd]
pipecmd(l, r) == [type |-> "PIPE", left |-> l, right |-> r]
listcmd(l, r) == [type |-> "LIST", left |-> l, right |-> r]
backcmd(c) == [type |-> "BACK", cmd |-> c]

\* The arguments are filled in last: they are in the EXEC under the REDIRs.
RECURSIVE WithArgs(_, _)
WithArgs(c, n) == IF c.type = "EXEC" THEN execcmd(n) ELSE redircmd(WithArgs(c.cmd, n), c.fd)

RECURSIVE parseredirs(_, _)
parseredirs(c, s) ==
  IF ~Peek(s, {"<", ">"}) THEN Parsed(c, s)
  ELSE IF GetToken(Tail(s)) # "a" THEN Panics
  ELSE parseredirs(redircmd(c, IF Head(s) = "<" THEN 0 ELSE 1), Tail(Tail(s)))

\* The loop of parseexec() with argc arguments taken so far
RECURSIVE ParseArgs(_, _, _)
ParseArgs(c, argc, s) ==
  IF Peek(s, {"|", ")", "&", ";"}) \/ GetToken(s) = "end" THEN Parsed(WithArgs(c, argc), s)
  ELSE IF GetToken(s) # "a" \/ argc + 1 >= MAXARGS THEN Panics
  ELSE Then(parseredirs(c, Tail(s)), LAMBDA d, t : ParseArgs(d, argc + 1, t))

RECURSIVE parseline(_), parsepipe(_)

parseblock(s) ==
  Then(parseline(Tail(s)), LAMBDA c, t :
    IF Peek(t, {")"}) THEN parseredirs(c, Tail(t)) ELSE Panics)

parseexec(s) ==
  IF Peek(s, {"("}) THEN parseblock(s)
  ELSE Then(parseredirs(execcmd(0), s), LAMBDA c, t : ParseArgs(c, 0, t))

\* mutant: the sides of a pipe are swapped
parsepipeSwapped(s) ==
  Then(parseexec(s), LAMBDA l, t :
    IF ~Peek(t, {"|"}) THEN Parsed(l, t)
    ELSE Then(parsepipe(Tail(t)), LAMBDA r, u : Parsed(pipecmd(r, l), u)))

parsepipe(s) ==
  Then(parseexec(s), LAMBDA l, t :
    IF ~Peek(t, {"|"}) THEN Parsed(l, t)
    ELSE Then(parsepipe(Tail(t)), LAMBDA r, u : Parsed(pipecmd(l, r), u)))

RECURSIVE BackLoop(_, _)
BackLoop(c, s) == IF Peek(s, {"&"}) THEN BackLoop(backcmd(c), Tail(s)) ELSE Parsed(c, s)

parseline(s) ==
  Then(Then(parsepipe(s), BackLoop), LAMBDA l, t :
    IF ~Peek(t, {";"}) THEN Parsed(l, t)
    ELSE Then(parseline(Tail(t)), LAMBDA r, u : Parsed(listcmd(l, r), u)))

parsecmd(s) == Then(parseline(s), LAMBDA c, t : IF t = <<>> THEN Parsed(c, t) ELSE Panics)
-----------------------------------------------------------------------------
(* runcmd(): the processes it starts that run a command or wait, with their *)
(* descriptors.  k, the way from the root of the command, names the pipes   *)
(* and files; a process that ends at once is left out.                      *)
FD == 0 .. 5
Close(f, d) == [f EXCEPT ![d] = <<>>]
FdAlloc(f, x) == LET d == CHOOSE i \in FD : f[i] = <<>> /\ \A j \in FD : f[j] = <<>> => i <= j
                 IN [f EXCEPT ![d] = x]
Fd(f, x) == CHOOSE i \in FD : f[i] = x
Dup(f, d) == FdAlloc(f, f[d])

\* The child of a pipe: p[end] becomes std, then both ends are closed.
\* mutant: the other end stays open in the child
PipeChildOpen(f, r, w, end, std) ==
  LET g == Dup(Close(f, std), end) IN Close(g, end)
PipeChild(f, r, w, end, std) ==
  LET g == Dup(Close(f, std), end) IN Close(Close(g, r), w)

RECURSIVE runcmd(_, _, _)
runcmd(c, f, k) ==
  CASE c.type = "EXEC" -> IF c.argc = 0 THEN {} ELSE {<<"exec", k, f>>}
    [] c.type = "REDIR" ->
         runcmd(c.cmd, FdAlloc(Close(f, c.fd), <<"file", k>>), Append(k, 0))
    [] c.type = "BACK" -> runcmd(c.cmd, f, Append(k, 0))
    [] c.type = "LIST" ->
         {<<"wait", k, f>>} \cup runcmd(c.left, f, Append(k, 1)) \cup runcmd(c.right, f, Append(k, 2))
    [] c.type = "PIPE" ->
         LET g == FdAlloc(FdAlloc(f, <<"read", k>>), <<"write", k>>)
             r == Fd(g, <<"read", k>>)
             w == Fd(g, <<"write", k>>)
         IN {<<"wait", k, Close(Close(g, r), w)>>}
              \cup runcmd(c.left, PipeChild(g, r, w, w, 1), Append(k, 1))
              \cup runcmd(c.right, PipeChild(g, r, w, r, 0), Append(k, 2))

\* main() has opened the console three times.
Console == [d \in FD |-> IF d < 3 THEN <<"console">> ELSE <<>>]

-----------------------------------------------------------------------------
(* Properties.                                                              *)

Ops == {"|", "(", ")", ";", "&"}
Redir == {"<", ">"}
At(s, i) == IF i \in DOMAIN s THEN s[i] ELSE "end"
\* The operator before position i; the words of a simple command
Before(s, i) == LET ops == {j \in 1 .. i - 1 : s[j] \in Ops}
                IN IF ops = {} THEN 0 ELSE CHOOSE j \in ops : \A m \in ops : m <= j
IsArg(s, i) == s[i] = "a" /\ At(s, i - 1) \notin Redir
Count(s, i, x) == Len(SelectSeq(SubSeq(s, 1, i), LAMBDA y : y = x))

(* The lines of the shell's language, read off without parsing them.        *)
WellFormed(s) ==
  /\ \A i \in DOMAIN s :
       /\ Count(s, i, "(") >= Count(s, i, ")")
       /\ s[i] \in Redir => At(s, i + 1) = "a"
       /\ s[i] = "&" => At(s, i + 1) \in {"&", ";", ")", "end"}
       /\ s[i] = ")" => At(s, i + 1) \notin {"a", "("}
       /\ s[i] = "(" => At(s, i - 1) \in {"end", "|", "(", ";"}
       /\ IsArg(s, i) => /\ At(s, Before(s, i)) # ")"
                         /\ Len(SelectSeq([j \in 1 .. i |-> j],
                              LAMBDA j : j > Before(s, i) /\ IsArg(s, j))) < MAXARGS
  /\ Count(s, Len(s), "(") = Count(s, Len(s), ")")

(* The parser accepts exactly the well-formed lines and panics for the      *)
(* others: no token is skipped and none is left over (sh.c:346-361,         *)
(* 434-465).                                                                *)
AcceptsLanguage == parsecmd(line).ok <=> WellFormed(line)

(* What a line means, by splitting it at its weakest operator outside       *)
(* parentheses: the first ";", else a last "&", else the first "|".         *)
Top(s, x) == {i \in DOMAIN s : s[i] = x /\ Count(s, i, "(") = Count(s, i, ")")}
First(set) == CHOOSE i \in set : \A j \in set : i <= j
Left(s, i) == SubSeq(s, 1, i - 1)
Right(s, i) == SubSeq(s, i + 1, Len(s))

RECURSIVE Redirected(_, _)
Redirected(c, s) ==
  LET rs == {i \in DOMAIN s : s[i] \in Redir}
  IN IF rs = {} THEN c
     ELSE Redirected(redircmd(c, IF s[First(rs)] = "<" THEN 0 ELSE 1), Right(s, First(rs)))

RECURSIVE Meaning(_)
Meaning(s) ==
  CASE Top(s, ";") # {} -> LET i == First(Top(s, ";"))
                           IN listcmd(Meaning(Left(s, i)), Meaning(Right(s, i)))
    [] Top(s, ";") = {} /\ Top(s, "&") # {} -> backcmd(Meaning(Front(s)))
    [] Top(s, ";") \cup Top(s, "&") = {} /\ Top(s, "|") # {} ->
         LET i == First(Top(s, "|")) IN pipecmd(Meaning(Left(s, i)), Meaning(Right(s, i)))
    [] OTHER ->
         IF At(s, 1) = "("
         THEN LET i == First({j \in DOMAIN s : Count(s, j, "(") = Count(s, j, ")")})
              IN Redirected(Meaning(SubSeq(s, 2, i - 1)), Right(s, i))
         ELSE LET args == {i \in DOMAIN s : IsArg(s, i)}
              IN Redirected(execcmd(Cardinality(args)), s)

(* A line is parsed as it is meant: ";" weaker than "&", "&" than "|",      *)
(* lists and pipes to the right, redirections on the command they follow    *)
(* (sh.c:363-465).                                                          *)
ParsedAsMeant == WellFormed(line) => parsecmd(line).cmd = Meaning(line)

\* The descriptors that a command's place in the line gives to its processes
RECURSIVE Wired(_, _, _, _)
Wired(c, in, out, k) ==
  LET f == [d \in FD |-> CASE d = 0 -> in [] d = 1 -> out [] d = 2 -> <<"console">> [] OTHER -> <<>>]
  IN CASE c.type = "EXEC" -> IF c.argc = 0 THEN {} ELSE {<<"exec", k, f>>}
       [] c.type = "REDIR" -> IF c.fd = 0 THEN Wired(c.cmd, <<"file", k>>, out, Append(k, 0))
                              ELSE Wired(c.cmd, in, <<"file", k>>, Append(k, 0))
       [] c.type = "BACK" -> Wired(c.cmd, in, out, Append(k, 0))
       [] c.type = "LIST" -> {<<"wait", k, f>>} \cup Wired(c.left, in, out, Append(k, 1))
                               \cup Wired(c.right, in, out, Append(k, 2))
       [] c.type = "PIPE" -> {<<"wait", k, f>>} \cup Wired(c.left, in, <<"write", k>>, Append(k, 1))
                               \cup Wired(c.right, <<"read", k>>, out, Append(k, 2))

(* Every process of a line runs or waits with its input, its output and the *)
(* console open and nothing else: no process but the writers keeps the      *)
(* write end of a pipe, so that its readers see the end of it               *)
(* (sh.c:114-147).                                                          *)
PipesWired ==
  parsecmd(line).ok =>
    runcmd(parsecmd(line).cmd, Console, <<>>)
      = Wired(parsecmd(line).cmd, <<"console">>, <<"console">>, <<>>)
=============================================================================
