--------------------------- MODULE MCContractModify ---------------------------
EXTENDS ContractModify
CONSTANTS camera, radio
MCInterfaces == {camera, radio}
MCGenerated == {[ok |-> {"open"}, drifted |-> {}],
                [ok |-> {"read"}, drifted |-> {}],
                [ok |-> {"open"}, drifted |-> {"read"}]}
=============================================================================
