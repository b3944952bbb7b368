------------------------------ MODULE MC_V7kParse ------------------------------
EXTENDS V7kParse

\* Two attribute names, one a prefix of the other, as WWPN and id would be.
MC_Names == {<<"a">>, <<"a", "b">>}

\* Values: the empty one (an unset column), one and two characters.
MC_Values == {<< >>, <<"b">>, <<"a", "b">>}

\* A detailed value holding the delimiter, at its start and inside.
MC_BangVals == {<<"!">>, <<"a", "!", "b">>}
=============================================================================
