----------------------------- MODULE MCAccounts -----------------------------
(***************************************************************************)
(* The instance of Accounts that TLC checks: one address typed in two      *)
(* ways and another one, a name with blanks around it and one of blanks    *)
(* only, and passwords on either side of each limit.                       *)
(***************************************************************************)
EXTENDS Accounts, TLC

MCSpellings == {"ani@x", " Ani@x", "budi@x"}
\* The validator takes no address with a blank before it: trimming comes first.
MCValidEmails == {"ani@x", "budi@x"}
MCNormal == [s \in MCSpellings |-> IF s = " Ani@x" THEN "ani@x" ELSE s]

MCNames == {"Ani ", "Ani", "  ", ""}
MCTrim == [n \in MCNames |-> CASE n = "Ani " -> "Ani" [] n = "  " -> "" [] OTHER -> n]
MCSize == [n \in MCNames |-> CASE n = "" -> 0 [] n = "  " -> 2
                               [] n = "Ani" -> 3 [] n = "Ani " -> 4]

\* Seven characters; eight; seventy-two of one byte each; seventy-two, one of two
\* bytes.
MCPasswords == {"short", "edge", "eight", "wide"}
MCRunes == [short |-> 7, eight |-> 8, edge |-> 72, wide |-> 72]
MCBytes == [short |-> 7, eight |-> 8, edge |-> 72, wide |-> 73]

Symmetric == Permutations(Registers) \cup Permutations(Updates)
=============================================================================
