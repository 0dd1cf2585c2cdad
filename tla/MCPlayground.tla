---------------------------- MODULE MCPlayground ----------------------------
EXTENDS Playground, TLC

CONSTANTS one, two, oneWithSlash, malformed

ParsedInputs == one :> one @@ two :> two @@ oneWithSlash :> one @@ malformed :> None
=============================================================================
