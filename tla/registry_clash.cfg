SPECIFICATION FileSpec
CONSTANTS
    Module = {base, addon}
    Writer = {engine, cli}
    Process = {{engine}, {cli}}
    Inode = {1, 2, 3}
    NoInode = 0
INVARIANT ReadableAtRest
