-------------------------- MODULE MCStorageResets --------------------------
EXTENDS StorageResets

\* A destruction and one reader, which need not go through the account's code.
RawBlocks == {<<"destroy", "probe">>}
=============================================================================
