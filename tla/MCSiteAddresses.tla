--------------------------- MODULE MCSiteAddresses ---------------------------
(* A small instance of SiteAddresses for TLC: every path of up to two      *)
(* pieces, those of three of a few pieces, and every name of up to four    *)
(* characters.                                                             *)
EXTENDS SiteAddresses

CONSTANTS page, folder, dotPage

Words == {Empty, Here, Parent, Ellipsis, Null, Blank, MacFolder, page, folder, dotPage}
DotPages == {dotPage}
WithoutDot == [w \in DotPages |-> page]
Pages == {page, dotPage}
IndexHtml == <<Raw(page)>>

Encoded(names, n) == [names |-> names, esc |-> n]

SomePieces ==
    {Raw(w) : w \in Words}
    \cup {Encoded(<<Parent, page>>, 1), Encoded(<<Empty, page>>, 1),
          Encoded(<<Null>>, 1), Encoded(<<page>>, 2)}

Few == {Raw(w) : w \in {Empty, Ellipsis, page, dotPage}}

Paths == UNION {[1..n -> SomePieces] : n \in 1..2} \cup [1..3 -> Few]

(* Single files, and pairs in which one entry decides about the other.     *)
Archives ==
    {{p} : p \in Paths}
    \cup {{IndexHtml, <<Raw(w), Raw(page)>>} : w \in {MacFolder, Parent, Ellipsis}}
    \cup {{IndexHtml, <<Raw(folder), Raw(w)>>} : w \in {Empty, folder, dotPage, Null}}

Labels == UNION {[1..n -> Char] : n \in 1..4}
ReservedLabels == {<<Letter, Letter, Letter>>}
=============================================================================
