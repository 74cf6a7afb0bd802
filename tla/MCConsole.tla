----------------------------- MODULE MCConsole -----------------------------
(* Glyphs of 2 by 3 pixels in cells of 3 by 3; a screen of two cells and a *)
(* third of one in each direction; ints of 16 bits.                        *)
EXTENDS Console

MCModes == {[width |-> 7, height |-> 7, pitch |-> 21, bpp |-> 24],
            [width |-> 7, height |-> 7, pitch |-> 16, bpp |-> 16]}

MCRepresentation == <<"0", "1", "2", "3", "4", "5", "6", "7", "8", "9",
                      "A", "B", "C", "D", "E", "F">>

MCChars == <<" ">> \o MCRepresentation \o <<"?", "%", "-", "a", "b", "n">>

(* The n-th glyph has the pixels of the bits of n. *)
MCFont ==
  LET index(c) == (CHOOSE i \in 1 .. Len(MCChars) : MCChars[i] = c) - 1
  IN [c \in {MCChars[i] : i \in 1 .. Len(MCChars)} |->
        {p \in (0 .. 1) \X (0 .. 2) : (index(c) \div 2 ^ (p[1] + 2 * p[2])) % 2 = 1}]

MCCharacters == DOMAIN MCFont \cup {"NUL", "SOH", "BS", "TAB", "LF", "CR"}

MCStrings == {<<>>, <<"a">>, <<"SOH", "b">>, <<"a", "LF">>, <<"LF", "b">>,
              <<"a", "CR", "b">>, <<"BS", "b">>, <<"a", "b", "BS", "a">>,
              <<"a", "BS", "BS", "BS", "b">>, <<"TAB", "BS", "BS", "BS", "b">>,
              <<"LF", "LF", "a", "b", "a">>, <<"LF", "LF", "LF", "a">>}

MCNullText == <<"n", "n">>

MCCells == {<<1, 1>>, <<0, 2>>}

MCFormats ==
  {<<Number("d", 0)>>, <<Number("d", 7)>>, <<Number("d", -10)>>, <<Number("d", 32767)>>,
    <<Number("d", -32768)>>, <<Number("u", 65535)>>, <<Number("o", 65535)>>,
    <<Number("o", 0)>>, <<Number("x", 41135)>>, <<Number("x", 16)>>,
    <<Text("literal", <<"a">>), Text("s", Null)>>,
    <<Text("c", <<"NUL">>), Text("s", <<"a", "LF", "b">>)>>,
    <<Text("c", <<"b">>), Text("s", <<"LF", "b">>), Text("literal", <<"a">>)>>,
    <<Text("percent", <<>>), Text("other", <<"a">>), Text("end", <<>>)>>}

MCReport == <<Text("literal", <<"a">>), Number("d", 14), Text("s", <<"n">>),
              Text("literal", <<"LF">>), Number("x", 2), Text("literal", <<"LF">>),
              Number("x", 26), Text("literal", <<"LF">>)>>

MCSegments == {<<1, 1, 5, 5>>, <<0, 0, 6, 2>>, <<5, 6, 3, 0>>, <<2, 2, 2, 2>>, <<6, 1, -2, 4>>,
               <<4, 0, 4, 8>>, <<9, 9, 3, -3>>, <<0, 5, 6, 5>>, <<-1, 3, 2, -2>>}
=============================================================================
