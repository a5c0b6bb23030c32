---------------------------- MODULE MCJsWrapper ----------------------------
EXTENDS JsWrapper
MCCosts == {1, 3}
MCValues == {0, 1}
=============================================================================
