CONSTANTS
    RpcErrors = {"flood", "rpc_usage"}
SPECIFICATION Spec
INVARIANTS OnceAcrossPaths RefusalChangesNothing
PROPERTIES ConfirmedFirst ImplementsPromise
\* The command ends.
CHECK_DEADLOCK FALSE
