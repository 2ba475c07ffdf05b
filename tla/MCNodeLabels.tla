---------------------------- MODULE MCNodeLabels ----------------------------
(* NodeLabels with three cards, one of them with a number of two digits.    *)
EXTENDS NodeLabels, TLC

MCAlphaNum == {"0", "1", "2", "3", "a", "c", "d", "r", "Z"}

MCDigits == << <<"0">>, <<"1">>, <<"1", "0">> >>

MCDecimal == << <<"0">>, <<"1">>, <<"2">>, <<"3">> >>

MCMachine ==
    [tiles |-> <<0, 2, 1>>, numa |-> <<-1, 1, 1>>, memory |-> <<-1, 3, 1>>,
     group |-> <<1, 0, 1>>]

M(l, r, lanes, xelink, onSubdevice) ==
    [local |-> l, remote |-> r, lanes |-> lanes, xelink |-> xelink, onSubdevice |-> onSubdevice]

(* Links reported from both ends, twice, with few lanes, of another kind,  *)
(* not on a subdevice, and with a label missing.                           *)
MCMetrics ==
    {<< M(<<0, 0>>, <<1, 0>>, 4, TRUE, TRUE), M(<<1, 0>>, <<0, 0>>, 4, TRUE, TRUE),
        M(<<0, 1>>, <<1, 1>>, 8, TRUE, TRUE) >>,
     << M(<<2, 0>>, <<0, 0>>, 4, TRUE, TRUE), M(<<0, 0>>, <<2, 0>>, 2, TRUE, TRUE),
        M(<<2, 0>>, <<0, 0>>, 4, TRUE, TRUE), M(<<1, 0>>, <<2, 0>>, 4, FALSE, TRUE),
        M(<<0, 0>>, <<3, 0>>, 4, TRUE, FALSE), M(<<0, -1>>, <<1, 0>>, 4, TRUE, TRUE) >>}
=============================================================================
