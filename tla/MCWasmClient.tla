---------------------------- MODULE MCWasmClient ----------------------------
EXTENDS WasmClient
=============================================================================
