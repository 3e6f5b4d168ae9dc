------------------------------ MODULE Encodings -------------------------------
(* How texts are quoted for URLs and for HTML and read back (encode), and   *)
(* the addresses that fast redirects find in a URL (filters).  A text is a  *)
(* sequence of character codes; a text in memory ends before code 0.        *)
EXTENDS Integers, Sequences, FiniteSetsExt, SequencesExt

PERCENT == 37
PLUS == 43
BLANK == 32
AMPERSAND == 38

At(s, i, p) == Len(s) >= i + Len(p) - 1 /\ SubSeq(s, i, i + Len(p) - 1) = p

\* replace_in_string: every occurrence from the left; what was put in is not looked at again.
RECURSIVE ReplaceInString(_, _, _)
ReplaceInString(s, pattern, repl) ==
    LET found == {i \in 1 .. Len(s) : At(s, i, pattern)}
    IN  IF found = {} THEN s
        ELSE SubSeq(s, 1, Min(found) - 1) \o repl
             \o ReplaceInString(SubSeq(s, Min(found) + Len(pattern), Len(s)), pattern, repl)

-----------------------------------------------------------------------------
(* URLs.                                                                    *)

Letters == 65 .. 90 \cup 97 .. 122
\* The codes that stand for themselves: letters, digits, "*", "-", ".", "@" and "_".
PlainInUrls == Letters \cup 48 .. 57 \cup {42, 45, 46, 64, 95}

HexDigit(d) == IF d < 10 THEN 48 + d ELSE 55 + d
UrlCode(c) == CASE c \in PlainInUrls -> <<c>>
                [] c = BLANK -> <<PLUS>>
                [] OTHER -> <<PERCENT, HexDigit(c \div 16), HexDigit(c % 16)>>
UrlEncode(s) == FlattenSeq([i \in DOMAIN s |-> UrlCode(s[i])])

Xdtoi(d) == CASE d \in 48 .. 57 -> d - 48
              [] d \in 97 .. 102 -> d - 87
              [] d \in 65 .. 70 -> d - 55
              [] OTHER -> -1
\* 0 when two digits do not follow.
Xtoi(s) == IF Len(s) >= 2 /\ Xdtoi(s[1]) >= 0 /\ Xdtoi(s[2]) >= 0
           THEN 16 * Xdtoi(s[1]) + Xdtoi(s[2]) ELSE 0

\* A "%" that is not followed by the code of a character stands for itself.
RECURSIVE UrlDecodeButNotPlus(_)
UrlDecodeButNotPlus(s) ==
    CASE s = <<>> -> <<>>
      [] s # <<>> /\ s[1] = PERCENT /\ Xtoi(Tail(s)) # 0 ->
            <<Xtoi(Tail(s))>> \o UrlDecodeButNotPlus(SubSeq(s, 4, Len(s)))
      [] OTHER -> <<s[1]>> \o UrlDecodeButNotPlus(Tail(s))

RECURSIVE UrlDecode(_)
UrlDecode(s) ==
    CASE s = <<>> -> <<>>
      [] s # <<>> /\ s[1] = PLUS -> <<BLANK>> \o UrlDecode(Tail(s))
      [] s # <<>> /\ s[1] = PERCENT /\ Xtoi(Tail(s)) # 0 ->
            <<Xtoi(Tail(s))>> \o UrlDecode(SubSeq(s, 4, Len(s)))
      [] OTHER -> <<s[1]>> \o UrlDecode(Tail(s))

-----------------------------------------------------------------------------
(* HTML.                                                                    *)

AMP == <<38, 97, 109, 112, 59>>
QUOT == <<38, 113, 117, 111, 116, 59>>
LT == <<38, 108, 116, 59>>
GT == <<38, 103, 116, 59>>

HtmlCode(c) == CASE c = AMPERSAND -> AMP [] c = 34 -> QUOT [] c = 60 -> LT [] c = 62 -> GT
                 [] OTHER -> <<c>>
HtmlEncode(s) == FlattenSeq([i \in DOMAIN s |-> HtmlCode(s[i])])

\* The entities in the order in which they are replaced, the ampersand first.
Entities == <<<<AMP, AMPERSAND>>, <<QUOT, 34>>, <<LT, 60>>, <<GT, 62>>,
              <<<<38, 35, 51, 57, 59>>, 39>>, <<<<38, 35, 48, 51, 57, 59>>, 39>>>>
HtmlDecode(s) == FoldLeft(LAMBDA t, e : ReplaceInString(t, e[1], <<e[2]>>), s, Entities)

-----------------------------------------------------------------------------
(* Fast redirects.                                                          *)

\* A URL as a sequence of "http://", "https://", "http%3A//" and other parts.
Decoded(parts) == [i \in DOMAIN parts |-> IF parts[i] = "http%3A//" THEN "http://" ELSE parts[i]]

\* get_last_url: the last "http://", and from there on, or else from the start, the last
\* "https://"; the subject itself only when it is an address.
GetLastUrl(parts, decode) ==
    LET s == IF decode THEN Decoded(parts) ELSE parts
        plain == SelectLastInSeq(s, LAMBDA p : p = "http://")
        secure == SelectLastInSeq(s, LAMBDA p : p = "https://")
        new == IF secure > plain THEN secure ELSE IF plain = 0 /\ decode THEN 1 ELSE plain
    IN  IF new # 0 /\ (new # 1 \/ (s # <<>> /\ s[1] \in {"http://", "https://"}))
        THEN SubSeq(s, new, Len(s)) ELSE <<>>

-----------------------------------------------------------------------------
(* Properties of one text.                                                  *)

\* What was quoted for a URL is read back as it was, and fits the memory that url_encode and
\* url_decode reserve (encode.cpp 164, 230, 256, 341).
UrlIsReadBack(s) ==
    /\ UrlDecode(UrlEncode(s)) = s
    /\ UrlDecodeButNotPlus(UrlEncode(s)) = ReplaceAll(s, BLANK, PLUS)
    /\ Len(UrlEncode(s)) <= 3 * Len(s) /\ Len(UrlDecode(s)) <= Len(s)

\* What was quoted for HTML has no markup of its own, is read back as it was when it had no
\* entities, and fits (encode.cpp 128-166, 430-440).
HtmlIsReadBack(s) ==
    LET html == HtmlEncode(s) IN
    /\ \A i \in DOMAIN html : html[i] \notin {34, 60, 62}
    /\ \A i \in DOMAIN html : html[i] = AMPERSAND => \E e \in {AMP, QUOT, LT, GT} : At(html, i, e)
    /\ HtmlDecode(s) = s => HtmlDecode(html) = s
    /\ Len(html) <= 6 * Len(s)

\* A redirect goes to the last address in a URL, and there is one exactly when the URL has an
\* address (filters.cpp 621-691).
RedirectsToLast(parts, decode) ==
    LET s == IF decode THEN Decoded(parts) ELSE parts
        last == GetLastUrl(parts, decode)
        addresses == {i \in DOMAIN s : s[i] \in {"http://", "https://"}}
    IN  last = (IF addresses = {} THEN <<>> ELSE SubSeq(s, Max(addresses), Len(s)))
=============================================================================
