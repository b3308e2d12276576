------------------------------ MODULE MCSsd1306 ------------------------------
(***************************************************************************)
(* TLC instance of Ssd1306: three pages of two rows, six columns.  Every   *)
(* buffer can be drawn pixel by pixel, and every content of the display    *)
(* comes about when the buffer changes after it was shown: Starts are      *)
(* states that earlier calls may have left.                                *)
(***************************************************************************)
EXTENDS Ssd1306

MCPoints == {<<0, 0>>, <<5, 1>>, <<2, 5>>, <<3, 2>>, <<7, 3>>}
MCBitmaps == {{<<0, 0>>, <<1, 1>>, <<2, 0>>}}
MCDot == [s \in 0 .. 1 |-> IF s = 0 THEN {0} ELSE {}]
MCBar == [s \in 0 .. 1 |-> IF s = 0 THEN {1} ELSE {0, 1}]
MCTexts == {<<MCDot>>, <<MCBar, MCDot>>, <<MCDot, MCBar, MCDot, MCBar>>}
MCFont == [ch \in {"a"} |-> [width |-> 2, top |-> 1, bits |-> {<<0, 0>>, <<1, 1>>}]]
MCRanges == {<<0, 6>>, <<1, 1>>}

MCFilled(bits) == [p \in 0 .. 2 |-> [s \in 0 .. 5 |-> bits]]

\* No two columns and no two rows of this buffer are alike.
MCDrawing ==
    [p \in 0 .. 2 |-> [s \in 0 .. 5 |->
        CASE p = 0 -> IF s % 2 = 0 THEN {0} ELSE {}
          [] p = 1 -> IF s \div 2 = 1 THEN {0, 1} ELSE {1}
          [] OTHER -> IF s = 5 THEN {0} ELSE IF s < 3 THEN {1} ELSE {}]]

MCScroll(on, start, end) == [on |-> on, start |-> start, end |-> end]

MCStarts ==
    {[used |-> FALSE, page |-> MCFilled({}), ram |-> MCFilled({0}), scroll |-> MCScroll(FALSE, 0, 0)],
     [used |-> TRUE, page |-> MCFilled({}), ram |-> MCFilled({0}), scroll |-> MCScroll(FALSE, 0, 0)],
     [used |-> TRUE, page |-> MCDrawing, ram |-> MCFilled({1}), scroll |-> MCScroll(TRUE, 0, 2)],
     [used |-> TRUE, page |-> MCDrawing, ram |-> MCDrawing, scroll |-> MCScroll(TRUE, 2, 1)]}
==============================================================================
