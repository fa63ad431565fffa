SPECIFICATION Spec
CONSTANTS
    None = None
    sonic = sonic
    zelda = zelda
    md = md
    snes = snes
    p1 = p1
    p2 = p2
    hero = hero
    elf = elf
    Titles = {hero, elf}
    Games = {sonic, zelda}
    Cores = {md, snes}
    ZeroDetect = {md}
    Places = {p1, p2}
    Setups <- OnlySame
PROPERTIES
    PowerCutKeepsSave
