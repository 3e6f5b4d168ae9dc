------------------------------ MODULE Templates ------------------------------
(* The templates of the pages: loading a file and the modules it includes,   *)
(* and filling it with a map of exports (cgi.cpp).  A text is a sequence of   *)
(* tokens [tag, name]: "text", a variable "var", and the marks "then",        *)
(* "else", "endif", "start" and "end" of a named block.                       *)
EXTENDS Integers, Sequences, FiniteSets, SequencesExt

token(tag, name) == [tag |-> tag, name |-> name]

-----------------------------------------------------------------------------
(* Loading.  files gives the lines of a file [dir, name]; a line is           *)
(* [include, hash, text]: the module it includes or "", whether it starts     *)
(* with '#', and its tokens.                                                  *)

Failed == [ok |-> FALSE, text |-> <<>>]
Lines(files, dir, name) == files[[dir |-> dir, name |-> name]]
Has(files, dir, name) == [dir |-> dir, name |-> name] \in DOMAIN files

\* Comments are left out, except of a style sheet.
Kept(line, css) == IF line.hash /\ ~css THEN <<>> ELSE line.text

\* A module does not include others: such a line is a comment there.
Module(files, dir, name, css) ==
    IF ~Has(files, dir, name) THEN Failed
    ELSE [ok |-> TRUE, text |-> FoldLeft(LAMBDA t, line : t \o Kept(line, css), <<>>,
                                         Lines(files, dir, name))]

\* A module is looked for beside the template, then in the main directory.
Included(files, dir, main, name, css) ==
    IF Module(files, dir, name, css).ok THEN Module(files, dir, name, css)
    ELSE Module(files, main, name, css)

TemplateLoad(files, dir, main, name, css) ==
    LET add(r, line) ==
            LET m == Included(files, dir, main, line.include, css)
            IN  CASE ~r.ok -> r
                  [] r.ok /\ line.include # "" /\ ~m.ok -> Failed
                  [] r.ok /\ line.include # "" /\ m.ok -> [r EXCEPT !.text = @ \o m.text]
                  [] OTHER -> [r EXCEPT !.text = @ \o Kept(line, css)]
    IN  IF ~Has(files, dir, name) THEN Failed
        ELSE FoldLeft(add, [ok |-> TRUE, text |-> <<>>], Lines(files, dir, name))

-----------------------------------------------------------------------------
(* Exports.  An export is [from, to, by]: a mark alone (to = from), or a      *)
(* block, is replaced by a text.                                             *)

Export(mark, by) == [from |-> mark, to |-> mark, by |-> by]
Block(from, to) == [from |-> from, to |-> to, by |-> <<>>]

MapBlockKiller(name) == {Block(token("start", name), token("end", name))}
MapBlockKeep(name) == {Export(token("start", name), <<>>), Export(token("end", name), <<>>)}

MapConditional(name, first) ==
    IF first THEN {Block(token("else", name), token("endif", name)),
                   Export(token("then", name), <<>>)}
    ELSE {Block(token("then", name), token("else", name)), Export(token("endif", name), <<>>)}

\* Every shortest text from the first mark to the next second one is replaced.
RECURSIVE Replaced(_, _)
Replaced(text, x) ==
    IF ~\E i, j \in DOMAIN text : i <= j /\ text[i] = x.from /\ text[j] = x.to THEN text
    ELSE LET i == CHOOSE i \in DOMAIN text :
                    text[i] = x.from /\ \A k \in 1 .. i - 1 : text[k] # x.from
             j == CHOOSE j \in i .. Len(text) :
                    text[j] = x.to /\ \A k \in i .. j - 1 : text[k] # x.to
         IN  SubSeq(text, 1, i - 1) \o x.by \o Replaced(SubSeq(text, j + 1, Len(text)), x)

\* The exports are used one after the other, in the order of the hash map.
TemplateFill(text, exports) == FoldLeft(Replaced, text, exports)

-----------------------------------------------------------------------------
(* Properties.                                                              *)

\* What a text with blocks stands for: a token is there when every branch that it is in
\* is the chosen one.
InBranch(text, i, from, to) ==
    \E j \in 1 .. i - 1 : text[j] = from /\ \A k \in j .. i - 1 : text[k] # to
Chosen(text, i, name, first) ==
    /\ InBranch(text, i, token("then", name), token("else", name)) => first
    /\ InBranch(text, i, token("else", name), token("endif", name)) => ~first
Meant(text, choice) ==
    LET kept == {i \in DOMAIN text : /\ text[i].tag = "text"
                                     /\ \A n \in DOMAIN choice : Chosen(text, i, n, choice[n])}
    IN  [n \in 1 .. Cardinality(kept) |-> text[SetToSortSeq(kept, <)[n]]]

\* In whatever order the map gives its entries, of each conditional exactly the chosen
\* branch is left, nested or not, and no mark (cgi.cpp 2021-2129, 2463-2486).
OneBranchIsLeft(text, choice) ==
    LET exports == UNION {MapConditional(n, choice[n]) : n \in DOMAIN choice}
    IN  \A order \in SetToSeqs(exports) : TemplateFill(text, order) = Meant(text, choice)

\* A template with its modules is what it would be if their lines stood in it; a module that
\* is not there, beside the template or in the main directory, leaves nothing of it
\* (cgi.cpp 1850-2005).
LoadsInline(files, dir, main, name, css) ==
    LET key == [dir |-> dir, name |-> name]
        r == TemplateLoad(files, dir, main, name, css)
        lines == IF key \in DOMAIN files THEN files[key] ELSE <<>>
        where(n) == IF Has(files, dir, n) THEN dir ELSE main
        plain(n) == [i \in DOMAIN Lines(files, where(n), n) |->
                        [Lines(files, where(n), n)[i] EXCEPT !.include = ""]]
        inline == [i \in DOMAIN lines |-> IF lines[i].include = "" THEN <<lines[i]>>
                                          ELSE plain(lines[i].include)]
    IN  /\ r.ok <=> /\ key \in DOMAIN files
                    /\ \A i \in DOMAIN lines : lines[i].include # "" =>
                            Has(files, dir, lines[i].include) \/ Has(files, main, lines[i].include)
        /\ r.ok => r = TemplateLoad([files EXCEPT ![key] = FlattenSeq(inline)], dir, main, name, css)
        /\ ~r.ok => r.text = <<>>

\* In whatever order the map gives its entries, the blocks that are killed are cut out, and
\* of those that are kept only the marks (cgi.cpp 2021-2130, 2387-2436).
BlocksAreCut(text, keeps) ==
    LET exports == UNION {IF keeps[n] THEN MapBlockKeep(n) ELSE MapBlockKiller(n) : n \in DOMAIN keeps}
        cut(i) == \E n \in DOMAIN keeps :
                    ~keeps[n] /\ InBranch(text, i, token("start", n), token("end", n))
        left == SetToSortSeq({i \in DOMAIN text : text[i].tag = "text" /\ ~cut(i)}, <)
    IN  \A order \in SetToSeqs(exports) :
            TemplateFill(text, order) = [n \in DOMAIN left |-> text[left[n]]]
=============================================================================
